---- MODULE Spec2Model ----
(***************************************************************************)
(* Dependency analysis of a source tree (fenli-electron): the recursive   *)
(* DependencyTracker, the per-entry analysis, entry validation, the batch *)
(* analysis loop and the merge of per-entry results.                      *)
(*                                                                         *)
(* Strings are sequences of one-character strings, so that the string      *)
(* operations the code uses on paths (startsWith, includes, replace,      *)
(* trim, sort) and node's POSIX path functions are computed as the code   *)
(* computes them.                                                          *)
(***************************************************************************)
EXTENDS Integers, Sequences, FiniteSets, TLC

(***************************************************************************)
(* JavaScript strings                                                      *)
(***************************************************************************)

\* UTF-16 code unit of the characters the model uses (for String order).
CharCode(c) ==
    CASE c = " " -> 32 [] c = "." -> 46 [] c = "/" -> 47 [] c = "@" -> 64
      [] c = "a" -> 97 [] c = "b" -> 98 [] c = "c" -> 99 [] c = "d" -> 100
      [] c = "e" -> 101 [] c = "i" -> 105 [] c = "j" -> 106 [] c = "l" -> 108
      [] c = "n" -> 110 [] c = "o" -> 111 [] c = "p" -> 112 [] c = "q" -> 113
      [] c = "r" -> 114 [] c = "s" -> 115 [] c = "t" -> 116 [] c = "u" -> 117
      [] c = "x" -> 120 [] OTHER -> 0

\* a < b in JavaScript's default string comparison (Array.prototype.sort).
RECURSIVE StrLess(_, _)
StrLess(a, b) ==
    IF b = << >> THEN FALSE
    ELSE IF a = << >> THEN TRUE
    ELSE IF CharCode(Head(a)) # CharCode(Head(b))
         THEN CharCode(Head(a)) < CharCode(Head(b))
    ELSE StrLess(Tail(a), Tail(b))

\* String.prototype.startsWith
StartsWith(s, p) == Len(p) <= Len(s) /\ SubSeq(s, 1, Len(p)) = p

\* String.prototype.includes
Includes(s, p) ==
    \E i \in 1..(Len(s) - Len(p) + 1) : SubSeq(s, i, i + Len(p) - 1) = p

\* Index of the first occurrence of p in s, 0 when there is none.
IndexOf(s, p) ==
    IF Includes(s, p)
    THEN CHOOSE i \in 1..(Len(s) - Len(p) + 1) :
            /\ SubSeq(s, i, i + Len(p) - 1) = p
            /\ \A j \in 1..(i - 1) : SubSeq(s, j, j + Len(p) - 1) # p
    ELSE 0

\* String.prototype.replace(p, r) with a string pattern: the first occurrence.
ReplaceFirst(s, p, r) ==
    LET i == IndexOf(s, p)
    IN IF i = 0 THEN s
       ELSE SubSeq(s, 1, i - 1) \o r \o SubSeq(s, i + Len(p), Len(s))

\* String.prototype.trim
RECURSIVE TrimLeft(_)
TrimLeft(s) == IF s # << >> /\ Head(s) = " " THEN TrimLeft(Tail(s)) ELSE s

RECURSIVE TrimRight(_)
TrimRight(s) ==
    IF s # << >> /\ s[Len(s)] = " " THEN TrimRight(SubSeq(s, 1, Len(s) - 1)) ELSE s

Trim(s) == TrimRight(TrimLeft(s))

\* Array.prototype.sort() of an array of strings (insertion into a sorted list).
RECURSIVE InsertSorted(_, _)
InsertSorted(x, l) ==
    IF l = << >> THEN << x >>
    ELSE IF StrLess(x, Head(l)) THEN << x >> \o l
    ELSE << Head(l) >> \o InsertSorted(x, Tail(l))

RECURSIVE SortStrings(_)
SortStrings(l) ==
    IF l = << >> THEN << >> ELSE InsertSorted(Head(l), SortStrings(Tail(l)))

(***************************************************************************)
(* node's path module, POSIX flavour (path.sep = "/")                      *)
(***************************************************************************)

Sep == << "/" >>

\* s.split("/")
RECURSIVE SplitAcc(_, _, _)
SplitAcc(s, cur, acc) ==
    IF s = << >> THEN Append(acc, cur)
    ELSE IF Head(s) = "/" THEN SplitAcc(Tail(s), << >>, Append(acc, cur))
    ELSE SplitAcc(Tail(s), Append(cur, Head(s)), acc)

Split(s) == SplitAcc(s, << >>, << >>)

\* segs.join("/")
RECURSIVE JoinSegs(_)
JoinSegs(segs) ==
    IF segs = << >> THEN << >>
    ELSE IF Len(segs) = 1 THEN Head(segs)
    ELSE Head(segs) \o Sep \o JoinSegs(Tail(segs))

\* The segment normalisation shared by normalize, join and resolve: empty
\* and "." segments are dropped, ".." removes the segment before it (at the
\* root of an absolute path it is dropped, in a relative path it is kept).
RECURSIVE NormSegs(_, _, _)
NormSegs(segs, acc, abs) ==
    IF segs = << >> THEN acc
    ELSE LET h == Head(segs) IN
         IF h = << >> \/ h = << "." >> THEN NormSegs(Tail(segs), acc, abs)
         ELSE IF h = << ".", "." >>
              THEN IF acc # << >> /\ acc[Len(acc)] # << ".", "." >>
                   THEN NormSegs(Tail(segs), SubSeq(acc, 1, Len(acc) - 1), abs)
                   ELSE IF abs THEN NormSegs(Tail(segs), acc, abs)
                   ELSE NormSegs(Tail(segs), Append(acc, h), abs)
         ELSE NormSegs(Tail(segs), Append(acc, h), abs)

IsAbsolute(p) == p # << >> /\ Head(p) = "/"

\* path.normalize
Normalize(p) ==
    IF p = << >> THEN << "." >>
    ELSE LET abs   == IsAbsolute(p)
             trail == p[Len(p)] = "/"
             body  == JoinSegs(NormSegs(Split(p), << >>, abs))
         IN IF body = << >>
            THEN (IF abs THEN Sep ELSE IF trail THEN << ".", "/" >> ELSE << "." >>)
            ELSE (IF abs THEN Sep ELSE << >>) \o body \o (IF trail THEN Sep ELSE << >>)

\* path.join(a, b)
Join(a, b) ==
    IF a = << >> THEN Normalize(b)
    ELSE IF b = << >> THEN Normalize(a)
    ELSE Normalize(a \o Sep \o b)

\* path.resolve(from, to) for an absolute from (every root in the model is
\* absolute); the result carries no trailing separator.
Resolve(from, to) ==
    LET full == IF IsAbsolute(to) THEN to ELSE from \o Sep \o to
    IN Sep \o JoinSegs(NormSegs(Split(full), << >>, TRUE))

\* path.resolve(p) of an absolute path.
Resolve1(p) == Sep \o JoinSegs(NormSegs(Split(p), << >>, TRUE))

\* path.dirname
Dirname(p) ==
    LET segs == Split(p)
        n    == Len(segs)
    IN IF n <= 1 THEN << "." >>
       ELSE LET d == JoinSegs(SubSeq(segs, 1, n - 1))
            IN IF d = << >> THEN Sep ELSE d

\* path.basename
Basename(p) == LET segs == Split(p) IN segs[Len(segs)]

\* Index of the last "." of s, 0 when there is none.
LastDot(s) ==
    IF \E i \in 1..Len(s) : s[i] = "."
    THEN CHOOSE i \in 1..Len(s) : s[i] = "." /\ \A j \in (i + 1)..Len(s) : s[j] # "."
    ELSE 0

\* path.extname: from the last "." of the basename, "" when there is none or
\* the only one is the basename's first character.
Extname(p) ==
    LET b == Basename(p)
        i == LastDot(b)
    IN IF i <= 1 \/ b = << ".", "." >> THEN << >> ELSE SubSeq(b, i, Len(b))

\* Length of the longest common prefix of two segment lists.
RECURSIVE CommonLen(_, _)
CommonLen(a, b) ==
    IF a = << >> \/ b = << >> \/ Head(a) # Head(b) THEN 0
    ELSE 1 + CommonLen(Tail(a), Tail(b))

RECURSIVE Ups(_)
Ups(n) == IF n = 0 THEN << >> ELSE << << ".", "." >> >> \o Ups(n - 1)

\* path.relative(from, to) of two absolute paths.
Relative(from, to) ==
    LET f == NormSegs(Split(from), << >>, TRUE)
        t == NormSegs(Split(to), << >>, TRUE)
        k == CommonLen(f, t)
    IN JoinSegs(Ups(Len(f) - k) \o SubSeq(t, k + 1, Len(t)))

(***************************************************************************)
(* The paths and reference strings of the modelled project                 *)
(***************************************************************************)

ProjectRootDir == << "/", "p" >>
SiblingDir     == << "/", "p", "q" >>
SrcDir         == ProjectRootDir \o << "/", "s", "r", "c" >>

ExtJs   == << ".", "j", "s" >>
ExtJsx  == << ".", "j", "s", "x" >>
ExtTs   == << ".", "t", "s" >>
ExtTsx  == << ".", "t", "s", "x" >>
ExtLess == << ".", "l", "e", "s", "s" >>
ExtCss  == << ".", "c", "s", "s" >>
ExtJson == << ".", "j", "s", "o", "n" >>

FileA     == SrcDir \o << "/", "a" >> \o ExtJs
FileALess == SrcDir \o << "/", "a" >> \o ExtLess
FileB     == SrcDir \o << "/", "b" >> \o ExtJs
FileC     == SrcDir \o << "/", "c" >> \o ExtTs
FileS     == SrcDir \o << "/", "s" >> \o ExtLess
DirD      == SrcDir \o << "/", "d" >>
FileDX    == DirD \o << "/", "x" >> \o ExtJs
FileDIndex == DirD \o << "/", "i", "n", "d", "e", "x" >> \o ExtJs
FileOut   == SiblingDir \o << "/", "x" >> \o ExtJs

\* Raw reference strings as the files contain them.
RefB     == << ".", "/", "b" >>
RefA     == << ".", "/", "a" >>
RefALess == << ".", "/", "a" >> \o ExtLess
RefS     == << ".", "/", "s" >> \o ExtLess
RefDX    == << "@", "/", "d", "/", "x" >>
RefC     == << "@", "/", "c" >>
RefD     == << "@", "/", "d" >>
RefOut   == << ".", ".", "/", ".", ".", "/", "p", "q", "/", "x" >>
RefPkg   == << "r", "e", "a", "c", "t" >>

\* Sequences over S of length at most n.
RECURSIVE SeqsUpTo(_, _)
SeqsUpTo(S, n) ==
    IF n = 0 THEN { << >> }
    ELSE LET shorter == SeqsUpTo(S, n - 1)
         IN shorter \cup { Append(q, x) : q \in { r \in shorter : Len(r) = n - 1 }, x \in S }

VARIABLES
    files,            \* disk: the paths that are regular files
    content,          \* disk: file -> the references its text holds, in extraction order
    statFails         \* disk: existing paths on which fs.statSync raises

diskVars == << files, content, statFails >>

(***************************************************************************)
(* fs                                                                      *)
(***************************************************************************)

IsFile(p) == Resolve1(p) \in files /\ p[Len(p)] # "/"

\* A directory is a proper ancestor of some file of the disk.
IsDirectory(p) ==
    LET dir == Resolve1(p)
    IN \E f \in files : StartsWith(f, IF dir = Sep THEN Sep ELSE dir \o Sep)

\* fs.existsSync
ExistsSync(p) == IsAbsolute(p) /\ (IsFile(p) \/ IsDirectory(p))

\* fs.statSync raises on p (an I/O error of the platform).
StatThrows(p) == Resolve1(p) \in statFails

(***************************************************************************)
(* scripts/utils.js                                                        *)
(***************************************************************************)

Ok(v)    == [tag |-> "ok", value |-> v]
Null     == [tag |-> "null", value |-> << >>]
Throw(m) == [tag |-> "throw", value |-> m]

\* The message of the error fs.statSync raises on p.
StatError(p) == << "E", "A", "C", "C", "E", "S", " " >> \o p

\* The extension list with the TypeScript extensions first.
ExtensionsTsFirst == << ExtTs, ExtTsx, ExtJs, ExtJsx, ExtLess, ExtCss, ExtJson >>

\* findFile: extensions
Extensions == << ExtJs, ExtJsx, ExtTs, ExtTsx, ExtLess, ExtCss, ExtJson >>

IndexName == << "i", "n", "d", "e", "x" >>

\* findFile, the loop over filePath + ext from the i-th extension on.
RECURSIVE FindWithExt(_, _)
FindWithExt(filePath, i) ==
    IF i > Len(Extensions) THEN Null
    ELSE LET fileWithExt == filePath \o Extensions[i]
         IN IF ExistsSync(fileWithExt) /\ StatThrows(fileWithExt)
            THEN Throw(StatError(fileWithExt))
            ELSE IF ExistsSync(fileWithExt) /\ IsFile(fileWithExt)
            THEN Ok(fileWithExt)
            ELSE FindWithExt(filePath, i + 1)

\* findFile, the loop over <dir>/index + ext from the i-th extension on.
RECURSIVE FindIndex(_, _)
FindIndex(filePath, i) ==
    IF i > Len(Extensions) THEN Null
    ELSE LET indexFile == Join(filePath, IndexName \o Extensions[i])
         IN IF ExistsSync(indexFile) THEN Ok(indexFile)
            ELSE FindIndex(filePath, i + 1)

FindFile(filePath) ==
    IF ExistsSync(filePath) /\ StatThrows(filePath)
    THEN Throw(StatError(filePath))
    ELSE IF ExistsSync(filePath) /\ IsFile(filePath)
    THEN Ok(filePath)
    ELSE LET withExt == FindWithExt(filePath, 1)
         IN IF withExt.tag # "null" THEN withExt
            ELSE IF ExistsSync(filePath) /\ IsDirectory(filePath)
            THEN FindIndex(filePath, 1)
            ELSE Null

AliasPrefix == << "@", "/" >>

ResolveDependency(importPath, fromFile, srcRoot) ==
    IF StartsWith(importPath, AliasPrefix)
    THEN Ok(Join(srcRoot, ReplaceFirst(importPath, AliasPrefix, << >>)))
    ELSE IF StartsWith(importPath, << ".", "/" >>)
            \/ StartsWith(importPath, << ".", ".", "/" >>)
    THEN Ok(Resolve(Dirname(fromFile), importPath))
    ELSE Null

ToAliasPath(filePath, srcRoot) ==
    LET relativePath == Relative(srcRoot, filePath)
    IN IF ~StartsWith(relativePath, << ".", "." >>)
       THEN AliasPrefix \o relativePath
       ELSE filePath

\* parseImports / parseStyleImports: the references the file's text holds
\* (the regular-expression scan itself is not modelled), none for a path
\* that is not a file on disk.
ParseImports(filePath) ==
    IF filePath \in DOMAIN content THEN content[filePath] ELSE << >>

RECURSIVE FirstDirectory(_, _)
FirstDirectory(candidates, fallback) ==
    IF candidates = << >> THEN fallback
    ELSE IF ExistsSync(Head(candidates)) /\ IsDirectory(Head(candidates))
    THEN Head(candidates)
    ELSE FirstDirectory(Tail(candidates), fallback)

DetectSrcRoot(projectRoot) ==
    FirstDirectory(<< Join(projectRoot, << "s", "r", "c" >>),
                      Join(projectRoot, << "s", "o", "u", "r", "c", "e" >>),
                      Join(projectRoot, << "l", "i", "b" >>),
                      projectRoot >>, projectRoot)

(***************************************************************************)
(* State of one request: analyzeByPath (mode "single"),                    *)
(* analyzeByPathBatch (mode "batch") or analyzeByUpload (mode "upload")    *)
(***************************************************************************)

VARIABLES
    request,          \* [mode, entries, projectRoot, maxDepth, excludeDirs]
    pc,               \* "start", "loop", "track", "threw", "done"
    validEntries,     \* validateEntryFiles: the entries to analyse, in order
    invalidEntries,   \* validateEntryFiles: the rejected entries
    entryIdx,         \* position of the batch loop in validEntries
    trackedFiles,     \* DependencyTracker.trackedFiles of the running tracker
    dependencyGraph,  \* DependencyTracker.dependencyGraph: path -> list of paths
    stack,            \* the activations of trackDependencies, innermost last
    thrown,           \* the error analyzeDependencies has raised, if any
    analysisResults,  \* the per-entry results collected so far
    errors,           \* the per-entry failures collected so far
    response          \* what the request returned (or raised)

trackerVars == << trackedFiles, dependencyGraph, stack >>
batchVars   == << validEntries, invalidEntries, entryIdx, analysisResults, errors >>
vars == << files, content, statFails, request, pc, validEntries, invalidEntries,
           entryIdx, trackedFiles, dependencyGraph, stack, thrown,
           analysisResults, errors, response >>

NoError    == << >>
NoResponse == [kind |-> "none"]

\* Cap on the live activations of trackDependencies. The disks of the model
\* hold eight files and the visited set bounds the recursion, so the cap
\* binds in no run.
MaxStack == 12

(***************************************************************************)
(* DependencyTracker                                                       *)
(***************************************************************************)

DefaultMaxDepth == 30

ProjectRoot == request.projectRoot

\* constructor: options.maxDepth || 30
TrackerMaxDepth ==
    IF request.maxDepth = 0 THEN DefaultMaxDepth ELSE request.maxDepth

\* constructor: options.srcRoot || detectSrcRoot(projectRoot)
SrcRoot == DetectSrcRoot(ProjectRoot)

ExcludeDirs == request.excludeDirs

NodeModules == << "n", "o", "d", "e", "_", "m", "o", "d", "u", "l", "e", "s" >>

\* One exclusion pattern against the project-relative path.
ExcludeMatches(excludeDir, relativePath) ==
    IF Trim(excludeDir) = << >> THEN FALSE
    ELSE LET normalizedExclude == Normalize(Trim(excludeDir))
             normalizedPath    == Normalize(relativePath)
         IN \/ StartsWith(normalizedPath, normalizedExclude)
            \/ Includes(normalizedPath, Join(normalizedExclude, Sep))
            \/ StartsWith(normalizedPath, Join(normalizedExclude, Sep))

ShouldExclude(filePath) ==
    IF Len(ExcludeDirs) = 0 THEN FALSE
    ELSE LET relativePath == Relative(ProjectRoot, filePath)
         IN \E k \in 1..Len(ExcludeDirs) : ExcludeMatches(ExcludeDirs[k], relativePath)

\* The project-boundary test of the tracker.
InProject(normalizedPath) == StartsWith(normalizedPath, ProjectRoot)

\* The test applied to a located reference before it becomes an edge.
AcceptDependency(normalizedDep) ==
    /\ InProject(normalizedDep)
    /\ ~Includes(normalizedDep, NodeModules)
    /\ ~ShouldExclude(normalizedDep)

EndsWith(s, suffix) ==
    Len(suffix) <= Len(s) /\ SubSeq(s, Len(s) - Len(suffix) + 1, Len(s)) = suffix

\* /\.(less|css)$/.test(actualFile)
IsStyleFile(actualFile) == EndsWith(actualFile, ExtLess) \/ EndsWith(actualFile, ExtCss)

StyleExtensions == << ExtLess, ExtCss >>

Top(st) == st[Len(st)]
Pop(st) == SubSeq(st, 1, Len(st) - 1)

CallFrame(filePath, depth) ==
    [phase |-> "call", path |-> filePath, actual |-> << >>, imports |-> << >>,
     i |-> 0, depth |-> depth, isStyle |-> FALSE]

\* A push that skips a dependency the list already holds.
PushEdgeOnce(graph, key, dep) ==
    IF \E k \in 1..Len(graph[key]) : graph[key][k] = dep THEN graph
    ELSE [graph EXCEPT ![key] = Append(@, dep)]

\* this.dependencyGraph.get(key).push(dep)
PushEdge(graph, key, dep) == [graph EXCEPT ![key] = Append(@, dep)]

\* if (!this.dependencyGraph.has(key)) this.dependencyGraph.set(key, [])
EnsureKey(graph, key) ==
    IF key \in DOMAIN graph THEN graph ELSE graph @@ (key :> << >>)

\* An error raised inside an activation leaves it; the try around the body
\* of the reference loop of the nearest caller that is in that loop
\* catches it (the companion probe calls outside any try).
RECURSIVE Unwind(_)
Unwind(st) ==
    IF st = << >> THEN << >>
    ELSE IF Top(st).phase = "imports" THEN st
    ELSE Unwind(Pop(st))

\* The early returns without the visited check.
SkipsFileRevisiting(depth, normalizedPath) ==
    \/ depth > TrackerMaxDepth
    \/ ~InProject(normalizedPath)
    \/ Includes(normalizedPath, NodeModules)
    \/ ShouldExclude(normalizedPath)

\* The early returns of trackDependencies that need no file lookup.
SkipsFile(depth, normalizedPath) ==
    \/ depth > TrackerMaxDepth
    \/ normalizedPath \in trackedFiles
    \/ ~InProject(normalizedPath)
    \/ Includes(normalizedPath, NodeModules)
    \/ ShouldExclude(normalizedPath)

\* trackDependencies(filePath, depth), from its entry up to the reference
\* loop: the early returns, the file lookup, the marking of the file and the
\* extraction of its references.
Enter ==
    /\ pc = "track" /\ stack # << >> /\ Top(stack).phase = "call"
    /\ LET f              == Top(stack)
           rest           == Pop(stack)
           absolutePath   == IF IsAbsolute(f.path) THEN f.path
                             ELSE Resolve(ProjectRoot, f.path)
           normalizedPath == Normalize(absolutePath)
           found          == FindFile(normalizedPath)
       IN IF SkipsFile(f.depth, normalizedPath)
          THEN /\ stack' = rest
               /\ UNCHANGED << trackedFiles, dependencyGraph, thrown, pc >>
          ELSE IF found.tag = "throw"
          THEN /\ stack' = Unwind(rest)
               /\ thrown' = IF Unwind(rest) = << >> THEN found.value ELSE thrown
               /\ pc' = IF Unwind(rest) = << >> THEN "threw" ELSE pc
               /\ UNCHANGED << trackedFiles, dependencyGraph >>
          ELSE IF found.tag = "null"
          THEN /\ stack' = rest
               /\ UNCHANGED << trackedFiles, dependencyGraph, thrown, pc >>
          ELSE /\ trackedFiles' = trackedFiles \cup { normalizedPath }
               /\ dependencyGraph' = EnsureKey(dependencyGraph, normalizedPath)
               /\ stack' = Append(rest,
                      [phase |-> "imports", path |-> normalizedPath,
                       actual |-> found.value, imports |-> ParseImports(found.value),
                       i |-> 1, depth |-> f.depth,
                       isStyle |-> IsStyleFile(found.value)])
               /\ UNCHANGED << thrown, pc >>
    /\ UNCHANGED << diskVars, request, batchVars, response >>

\* The iteration of the reference loop without its try/catch: an error of
\* the file lookup leaves trackDependencies.
ImportStepUncaught ==
    /\ pc = "track" /\ stack # << >>
    /\ Top(stack).phase = "imports" /\ Top(stack).i <= Len(Top(stack).imports)
    /\ Len(stack) < MaxStack
    /\ LET f            == Top(stack)
           advanced     == Append(Pop(stack), [f EXCEPT !.i = f.i + 1])
           importPath   == f.imports[f.i]
           resolvedPath == ResolveDependency(importPath, f.actual, SrcRoot)
           foundFile    == IF resolvedPath.tag = "ok" THEN FindFile(resolvedPath.value)
                           ELSE Null
           normalizedDep == Normalize(foundFile.value)
       IN IF foundFile.tag = "throw"
          THEN /\ stack' = << >>
               /\ thrown' = foundFile.value
               /\ pc' = "threw"
               /\ UNCHANGED dependencyGraph
          ELSE IF foundFile.tag = "ok" /\ AcceptDependency(normalizedDep)
          THEN /\ dependencyGraph' = PushEdge(dependencyGraph, f.path, normalizedDep)
               /\ stack' = Append(advanced, CallFrame(normalizedDep, f.depth + 1))
               /\ UNCHANGED << thrown, pc >>
          ELSE /\ stack' = advanced
               /\ UNCHANGED << dependencyGraph, thrown, pc >>
    /\ UNCHANGED << diskVars, request, batchVars, trackedFiles, response >>

\* One iteration of the loop over the extracted references: resolve, locate,
\* test, record the edge and recurse; an error in the iteration is swallowed.
ImportStep ==
    /\ pc = "track" /\ stack # << >>
    /\ Top(stack).phase = "imports" /\ Top(stack).i <= Len(Top(stack).imports)
    /\ Len(stack) < MaxStack
    /\ LET f            == Top(stack)
           advanced     == Append(Pop(stack), [f EXCEPT !.i = f.i + 1])
           importPath   == f.imports[f.i]
           resolvedPath == ResolveDependency(importPath, f.actual, SrcRoot)
           foundFile    == IF resolvedPath.tag = "ok" THEN FindFile(resolvedPath.value)
                           ELSE Null
           normalizedDep == Normalize(foundFile.value)
       IN IF foundFile.tag = "ok" /\ AcceptDependency(normalizedDep)
          THEN /\ dependencyGraph' = PushEdge(dependencyGraph, f.path, normalizedDep)
               /\ stack' = Append(advanced, CallFrame(normalizedDep, f.depth + 1))
          ELSE /\ stack' = advanced
               /\ UNCHANGED dependencyGraph
    /\ UNCHANGED << diskVars, request, pc, batchVars, trackedFiles, thrown, response >>

\* The companion-stylesheet probe of a code file, one style extension per step.
StyleIndex(f) == IF f.phase = "style" THEN f.i ELSE 1

\* actualFile.replace(ext, '')
BasePath(actualFile) == ReplaceFirst(actualFile, Extname(actualFile), << >>)

StyleStep ==
    /\ pc = "track" /\ stack # << >>
    /\ LET f == Top(stack) IN
         /\ ~f.isStyle
         /\ \/ f.phase = "imports" /\ f.i > Len(f.imports)
            \/ f.phase = "style"
         /\ StyleIndex(f) <= Len(StyleExtensions)
         /\ Len(stack) < MaxStack
         /\ LET k               == StyleIndex(f)
                advanced        == Append(Pop(stack),
                                      [f EXCEPT !.phase = "style", !.i = k + 1])
                styleFile       == BasePath(f.actual) \o StyleExtensions[k]
                normalizedStyle == Normalize(styleFile)
            IN IF ExistsSync(styleFile) /\ normalizedStyle \notin trackedFiles
               THEN /\ trackedFiles' = trackedFiles \cup { normalizedStyle }
                    /\ dependencyGraph' =
                           PushEdge(EnsureKey(dependencyGraph, f.path), f.path,
                                    normalizedStyle)
                    /\ stack' = Append(advanced, CallFrame(normalizedStyle, f.depth + 1))
               ELSE /\ stack' = advanced
                    /\ UNCHANGED << trackedFiles, dependencyGraph >>
    /\ UNCHANGED << diskVars, request, pc, batchVars, thrown, response >>

\* trackDependencies returns: the reference loop of a style file, or the
\* companion probe of a code file, is over.
ReturnFromCall ==
    /\ pc = "track" /\ stack # << >>
    /\ LET f == Top(stack) IN
         \/ f.phase = "imports" /\ f.i > Len(f.imports) /\ f.isStyle
         \/ f.phase = "style" /\ f.i > Len(StyleExtensions)
    /\ stack' = Pop(stack)
    /\ UNCHANGED << diskVars, request, pc, batchVars, trackedFiles, dependencyGraph,
                    thrown, response >>

\* getDependencyGraph: every key and every dependency in alias form, each
\* list sorted.
RECURSIVE MapAlias(_, _)
MapAlias(deps, srcRoot) ==
    IF deps = << >> THEN << >>
    ELSE << ToAliasPath(Head(deps), srcRoot) >> \o MapAlias(Tail(deps), srcRoot)

GetDependencyGraph ==
    [aliasPath \in { ToAliasPath(k, SrcRoot) : k \in DOMAIN dependencyGraph } |->
        LET filePath == CHOOSE k \in DOMAIN dependencyGraph :
                            ToAliasPath(k, SrcRoot) = aliasPath
        IN SortStrings(MapAlias(dependencyGraph[filePath], SrcRoot))]

\* getStatistics
DepsOf(filePath) ==
    IF filePath \in DOMAIN dependencyGraph THEN dependencyGraph[filePath] ELSE << >>

RECURSIVE SumOver(_, _)
SumOver(S, f) ==
    IF S = {} THEN 0
    ELSE LET x == CHOOSE y \in S : TRUE IN f[x] + SumOver(S \ { x }, f)

CountExt(ext) == Cardinality({ f \in trackedFiles : Extname(f) = ext })

KnownExts == { ExtJs, ExtJsx, ExtTs, ExtTsx, ExtLess, ExtCss }

\* getStatistics with totalFiles taken from the adjacency map.
GetStatisticsCountingKeys ==
    [totalFiles |-> Cardinality(DOMAIN dependencyGraph),
     filesByType |->
        [js   |-> CountExt(ExtJs),  jsx |-> CountExt(ExtJsx),
         ts   |-> CountExt(ExtTs),  tsx |-> CountExt(ExtTsx),
         less |-> CountExt(ExtLess), css |-> CountExt(ExtCss),
         other |-> Cardinality({ f \in trackedFiles : Extname(f) \notin KnownExts })],
     totalDependencies |->
        SumOver(trackedFiles, [f \in trackedFiles |-> Len(DepsOf(f))])]

GetStatistics ==
    [totalFiles |-> Cardinality(trackedFiles),
     filesByType |->
        [js   |-> CountExt(ExtJs),  jsx |-> CountExt(ExtJsx),
         ts   |-> CountExt(ExtTs),  tsx |-> CountExt(ExtTsx),
         less |-> CountExt(ExtLess), css |-> CountExt(ExtCss),
         other |-> Cardinality({ f \in trackedFiles : Extname(f) \notin KnownExts })],
     totalDependencies |->
        SumOver(trackedFiles, [f \in trackedFiles |-> Len(DepsOf(f))])]

(***************************************************************************)
(* Entry validation and the merge of per-entry results                     *)
(***************************************************************************)

\* The containment test without the separator behind the root.
IsFileInProjectByPrefix(filePath, projectRoot) ==
    StartsWith(Resolve1(filePath), Resolve1(projectRoot))

IsFileInProject(filePath, projectRoot) ==
    LET normalizedFilePath    == Resolve1(filePath)
        normalizedProjectRoot == Resolve1(projectRoot)
    IN \/ StartsWith(normalizedFilePath, normalizedProjectRoot \o Sep)
       \/ normalizedFilePath = normalizedProjectRoot

\* The path validateEntryFiles tests for a trimmed entry.
EntryPath(trimmedEntry, normalizedProjectRoot) ==
    IF IsAbsolute(trimmedEntry) THEN trimmedEntry
    ELSE Join(normalizedProjectRoot, trimmedEntry)

\* The classification of one non-blank entry.
EntryIsValid(trimmedEntry, normalizedProjectRoot) ==
    LET entryPath == EntryPath(trimmedEntry, normalizedProjectRoot)
    IN ExistsSync(entryPath) /\ IsFileInProject(entryPath, normalizedProjectRoot)

RECURSIVE ValidateFrom(_, _, _)
ValidateFrom(entries, normalizedProjectRoot, acc) ==
    IF entries = << >> THEN acc
    ELSE LET trimmedEntry == Trim(Head(entries))
             rest         == Tail(entries)
         IN IF trimmedEntry = << >>
            THEN ValidateFrom(rest, normalizedProjectRoot, acc)
            ELSE IF EntryIsValid(trimmedEntry, normalizedProjectRoot)
            THEN ValidateFrom(rest, normalizedProjectRoot,
                     [acc EXCEPT !.validEntries =
                         Append(@, EntryPath(trimmedEntry, normalizedProjectRoot))])
            ELSE ValidateFrom(rest, normalizedProjectRoot,
                     [acc EXCEPT !.invalidEntries = Append(@, trimmedEntry)])

\* validateEntryFiles(entries, projectRoot) with a project root.
ValidateEntryFiles(entries, projectRoot) ==
    ValidateFrom(entries, Resolve1(projectRoot),
                 [validEntries |-> << >>, invalidEntries |-> << >>])

\* The merge of one list without the duplicate test.
AppendAll(existing, deps) == existing \o deps

\* The inner loop of the merge: the dependencies not yet in the list are
\* appended in their order.
RECURSIVE AppendNew(_, _)
AppendNew(existing, deps) ==
    IF deps = << >> THEN existing
    ELSE IF \E k \in 1..Len(existing) : existing[k] = Head(deps)
    THEN AppendNew(existing, Tail(deps))
    ELSE AppendNew(Append(existing, Head(deps)), Tail(deps))

RECURSIVE MergedDeps(_, _)
MergedDeps(results, file) ==
    IF results = << >> THEN << >>
    ELSE LET r      == results[Len(results)]
             before == MergedDeps(SubSeq(results, 1, Len(results) - 1), file)
         IN IF file \in DOMAIN r.dependencyGraph
            THEN AppendNew(before, r.dependencyGraph[file])
            ELSE before

\* One counter of a statistics record.
StatField(st, name) ==
    CASE name = "totalFiles"        -> st.totalFiles
      [] name = "totalDependencies" -> st.totalDependencies
      [] OTHER                      -> st.filesByType[name]

RECURSIVE SumField(_, _)
SumField(results, name) ==
    IF results = << >> THEN 0
    ELSE StatField(Head(results).statistics, name) + SumField(Tail(results), name)

\* The statistic fields with the files counted from the merged keys.
MergedStatisticsByKeys(results) ==
    [totalFiles        |-> Cardinality(UNION { DOMAIN results[k].dependencyGraph :
                                                  k \in 1..Len(results) }),
     totalDependencies |-> SumField(results, "totalDependencies"),
     filesByType       |-> [js  |-> SumField(results, "js"),
                            ts  |-> SumField(results, "ts"),
                            tsx |-> SumField(results, "tsx")]]

\* The statistic fields the merge accumulates.
MergedStatistics(results) ==
    [totalFiles        |-> SumField(results, "totalFiles"),
     totalDependencies |-> SumField(results, "totalDependencies"),
     filesByType       |-> [js  |-> SumField(results, "js"),
                            ts  |-> SumField(results, "ts"),
                            tsx |-> SumField(results, "tsx")]]

MergedGraph(results) ==
    [file \in UNION { DOMAIN results[k].dependencyGraph : k \in 1..Len(results) } |->
        MergedDeps(results, file)]

RECURSIVE JoinEntryFiles(_)
JoinEntryFiles(results) ==
    IF results = << >> THEN << >>
    ELSE IF Len(results) = 1 THEN Head(results).entryFile
    ELSE Head(results).entryFile \o << ",", " " >> \o JoinEntryFiles(Tail(results))

\* mergeAnalysisResults(results) for a non-empty list.
MergeAnalysisResults(results) ==
    [entryFile       |-> JoinEntryFiles(results),
     statistics      |-> MergedStatistics(results),
     dependencyGraph |-> MergedGraph(results),
     entryResults    |-> results]

(***************************************************************************)
(* analyzeDependencies, analyzeByPath, analyzeByPathBatch, analyzeByUpload *)
(***************************************************************************)

MsgMissingEntry   == << "m", "i", "s", "s", "i", "n", "g", " ", "e", "n", "t", "r", "y" >>
MsgMissingEntries == << "m", "i", "s", "s", "i", "n", "g", " ", "e", "n", "t", "r", "i", "e", "s" >>
MsgNoValidEntry   == << "n", "o", " ", "v", "a", "l", "i", "d", " ", "e", "n", "t", "r", "y" >>
MsgAllFailed      == << "a", "l", "l", " ", "f", "a", "i", "l", "e", "d" >>
MsgNotFound(p)    == << "n", "o", "t", " ", "f", "o", "u", "n", "d", " " >> \o p

\* The entry the running (or next) call of analyzeDependencies is given.
CurrentEntry ==
    IF request.mode = "single" THEN request.entries[1] ELSE validEntries[entryIdx]

\* analyzeDependencies: the entry path it tracks.
ResolvedEntry(entryFile) ==
    IF IsAbsolute(entryFile) THEN entryFile ELSE Resolve(ProjectRoot, entryFile)

EmptyGraph == [k \in {} |-> << >>]

\* JavaScript's undefined.
Undefined == "undefined"

\* The request is served by one plain call of analyzeDependencies, outside
\* any try: analyzeByPath, and analyzeByUpload with a single valid entry.
IsSingleAnalysis ==
    \/ request.mode = "single"
    \/ request.mode = "upload" /\ Len(validEntries) = 1

\* invalidEntries.length > 0 ? invalidEntries : undefined
InvalidOrUndefined == IF Len(invalidEntries) > 0 THEN invalidEntries ELSE Undefined

\* analyzeByPath up to its call of analyzeDependencies.
AnalyzeByPath ==
    /\ pc = "start" /\ request.mode = "single"
    /\ IF request.entries[1] = << >>
       THEN /\ response' = [kind |-> "throw", message |-> MsgMissingEntry]
            /\ pc' = "done"
       ELSE /\ pc' = "loop"
            /\ UNCHANGED response
    /\ UNCHANGED << diskVars, request, batchVars, trackerVars, thrown >>

\* analyzeByPathBatch up to its loop over the valid entries.
AnalyzeByPathBatch ==
    /\ pc = "start" /\ request.mode = "batch"
    /\ IF Len(request.entries) = 0
       THEN /\ response' = [kind |-> "throw", message |-> MsgMissingEntries]
            /\ pc' = "done"
            /\ UNCHANGED << validEntries, invalidEntries >>
       ELSE LET v == ValidateEntryFiles(request.entries, ProjectRoot)
            IN /\ validEntries' = v.validEntries
               /\ invalidEntries' = v.invalidEntries
               /\ IF Len(v.validEntries) = 0
                  THEN /\ response' = [kind |-> "return", success |-> FALSE,
                                       message |-> MsgNoValidEntry,
                                       invalidEntries |-> v.invalidEntries]
                       /\ pc' = "done"
                  ELSE /\ pc' = "loop"
                       /\ UNCHANGED response
    /\ UNCHANGED << diskVars, request, entryIdx, analysisResults, errors,
                    trackerVars, thrown >>

\* analyzeByUpload, once the archive is unpacked and its project root found,
\* up to its first call of analyzeDependencies.
AnalyzeByUpload ==
    /\ pc = "start" /\ request.mode = "upload"
    /\ IF Len(request.entries) = 0
       THEN /\ response' = [kind |-> "throw", message |-> MsgMissingEntry]
            /\ pc' = "done"
            /\ UNCHANGED << validEntries, invalidEntries >>
       ELSE LET v == ValidateEntryFiles(request.entries, ProjectRoot)
            IN /\ validEntries' = v.validEntries
               /\ invalidEntries' = v.invalidEntries
               /\ IF Len(v.validEntries) = 0
                  THEN /\ response' = [kind |-> "return", success |-> FALSE,
                                       message |-> MsgNoValidEntry,
                                       projectRoot |-> ProjectRoot,
                                       invalidEntries |-> v.invalidEntries]
                       /\ pc' = "done"
                  ELSE /\ pc' = "loop"
                       /\ UNCHANGED response
    /\ UNCHANGED << diskVars, request, entryIdx, analysisResults, errors,
                    trackerVars, thrown >>

\* analyzeDependencies with a visited set that outlives the tracker.
AnalyzeDependenciesSharedVisited ==
    /\ pc = "loop"
    /\ request.mode # "single" => entryIdx <= Len(validEntries)
    /\ LET entryPath == ResolvedEntry(CurrentEntry)
       IN IF ~ExistsSync(entryPath)
          THEN /\ thrown' = MsgNotFound(entryPath)
               /\ pc' = "threw"
               /\ UNCHANGED trackerVars
          ELSE /\ dependencyGraph' = EmptyGraph
               /\ stack' = << CallFrame(entryPath, 0) >>
               /\ pc' = "track"
               /\ UNCHANGED << thrown, trackedFiles >>
    /\ UNCHANGED << diskVars, request, batchVars, response >>

\* analyzeDependencies with an adjacency map that outlives the tracker.
AnalyzeDependenciesSharedGraph ==
    /\ pc = "loop"
    /\ request.mode # "single" => entryIdx <= Len(validEntries)
    /\ LET entryPath == ResolvedEntry(CurrentEntry)
       IN IF ~ExistsSync(entryPath)
          THEN /\ thrown' = MsgNotFound(entryPath)
               /\ pc' = "threw"
               /\ UNCHANGED trackerVars
          ELSE /\ trackedFiles' = {}
               /\ stack' = << CallFrame(entryPath, 0) >>
               /\ pc' = "track"
               /\ UNCHANGED << thrown, dependencyGraph >>
    /\ UNCHANGED << diskVars, request, batchVars, response >>

\* analyzeDependencies up to its call of tracker.trackDependencies(entryPath).
AnalyzeDependencies ==
    /\ pc = "loop"
    /\ request.mode # "single" => entryIdx <= Len(validEntries)
    /\ LET entryPath == ResolvedEntry(CurrentEntry)
       IN IF ~ExistsSync(entryPath)
          THEN /\ thrown' = MsgNotFound(entryPath)
               /\ pc' = "threw"
               /\ UNCHANGED trackerVars
          ELSE /\ trackedFiles' = {}
               /\ dependencyGraph' = EmptyGraph
               /\ stack' = << CallFrame(entryPath, 0) >>
               /\ pc' = "track"
               /\ UNCHANGED thrown
    /\ UNCHANGED << diskVars, request, batchVars, response >>

\* What analyzeDependencies returns once the traversal is over.
AnalysisResult ==
    [entryFile       |-> Relative(ProjectRoot, ResolvedEntry(CurrentEntry)),
     dependencyGraph |-> GetDependencyGraph,
     statistics      |-> GetStatistics]

\* analyzeDependencies returns; a single analysis returns it, the loop of
\* analyzeByPathBatch or analyzeByUpload collects it and moves on.
AnalysisReturns ==
    /\ pc = "track" /\ stack = << >>
    /\ IF IsSingleAnalysis
       THEN /\ response' =
                  IF request.mode = "single"
                  THEN [kind |-> "return", success |-> TRUE, data |-> AnalysisResult]
                  ELSE [kind |-> "return", success |-> TRUE, data |-> AnalysisResult,
                        ok |-> TRUE, invalidEntries |-> InvalidOrUndefined]
            /\ pc' = "done"
            /\ UNCHANGED << analysisResults, entryIdx >>
       ELSE /\ analysisResults' = Append(analysisResults, AnalysisResult)
            /\ entryIdx' = entryIdx + 1
            /\ pc' = "loop"
            /\ UNCHANGED response
    /\ UNCHANGED << diskVars, request, validEntries, invalidEntries, errors,
                    trackerVars, thrown >>

\* Every error of analyzeDependencies let through, the loop running in no try.
AnalysisThrowsAborting ==
    /\ pc = "threw"
    /\ response' = [kind |-> "throw", message |-> thrown]
    /\ pc' = "done"
    /\ UNCHANGED << diskVars, request, batchVars, trackerVars, thrown >>

\* analyzeDependencies raises; a single analysis lets the error through, the
\* loop of analyzeByPathBatch or analyzeByUpload records it and moves on.
AnalysisThrows ==
    /\ pc = "threw"
    /\ IF IsSingleAnalysis
       THEN /\ response' = [kind |-> "throw", message |-> thrown]
            /\ pc' = "done"
            /\ UNCHANGED << errors, entryIdx, thrown >>
       ELSE /\ errors' = Append(errors, [entry |-> CurrentEntry, error |-> thrown])
            /\ entryIdx' = entryIdx + 1
            /\ thrown' = NoError
            /\ pc' = "loop"
            /\ UNCHANGED response
    /\ UNCHANGED << diskVars, request, validEntries, invalidEntries, analysisResults,
                    trackerVars >>

\* errors.length > 0 ? errors : undefined
ErrorsOrUndefined == IF Len(errors) > 0 THEN errors ELSE Undefined

\* analyzeByPathBatch after its loop.
BatchReturns ==
    /\ pc = "loop" /\ request.mode = "batch" /\ entryIdx > Len(validEntries)
    /\ response' =
          IF Len(analysisResults) = 0
          THEN [kind |-> "return", success |-> FALSE, message |-> MsgAllFailed,
                invalidEntries |-> invalidEntries, errors |-> errors]
          ELSE [kind |-> "return", success |-> TRUE,
                data |-> MergeAnalysisResults(analysisResults),
                invalidEntries |-> invalidEntries,
                errors |-> ErrorsOrUndefined]
    /\ pc' = "done"
    /\ UNCHANGED << diskVars, request, batchVars, trackerVars, thrown >>

\* analyzeByUpload after its loop over several valid entries.
UploadReturns ==
    /\ pc = "loop" /\ request.mode = "upload" /\ entryIdx > Len(validEntries)
    /\ response' =
          IF Len(analysisResults) = 0
          THEN [kind |-> "return", success |-> FALSE, message |-> MsgAllFailed,
                invalidEntries |-> invalidEntries, errors |-> errors,
                projectRoot |-> ProjectRoot]
          ELSE [kind |-> "return", success |-> TRUE,
                data |-> MergeAnalysisResults(analysisResults),
                ok |-> TRUE,
                invalidEntries |-> InvalidOrUndefined,
                errors |-> ErrorsOrUndefined]
    /\ pc' = "done"
    /\ UNCHANGED << diskVars, request, batchVars, trackerVars, thrown >>

(***************************************************************************)
(* The requests and disks the model runs                                   *)
(***************************************************************************)

MaxRefs       == 2
MaxEntries    == 2
MaxDepthInput == 2

AllFiles == { FileA, FileALess, FileB, FileC, FileS, FileDX, FileDIndex, FileOut }

RelA    == << "s", "r", "c", "/", "a" >> \o ExtJs
RelB    == << "s", "r", "c", "/", "b" >> \o ExtJs
RelCPad == << " ", "s", "r", "c", "/", "c" >> \o ExtTs \o << " " >>
RelNone == << "s", "r", "c", "/", "z" >> \o ExtJs
RelUp   == << ".", ".", "/", "p", "q", "/", "x" >> \o ExtJs
Blank   == << " ", " " >>

PatternDir  == << "s", "r", "c", "/", "d" >>
PatternFile == << "s", "r", "c", "/", "a" >> \o ExtLess

\* Disks: the fixed part of the project and the references of a.js and b.js
\* (every pair of short lists, and the lists that make d/x.js reachable from
\* a.js both through b.js and directly).
Disks ==
    { [files   |-> fs,
       content |-> [f \in fs |->
                      CASE f = FileA     -> cab[1]
                        [] f = FileB     -> cab[2]
                        [] f = FileC     -> << RefPkg, RefOut, RefA >>
                        [] f = FileDX    -> << RefDX, RefC >>
                        [] f = FileDIndex -> << RefD >>
                        [] f = FileALess -> << RefS >>
                        [] OTHER         -> << >>]] :
        fs \in { AllFiles },
        cab \in (SeqsUpTo({ RefB, RefDX }, MaxRefs) \X SeqsUpTo({ RefA, RefALess }, MaxRefs))
                    \cup { << << RefB, RefDX >>, << RefDX >> >> } }

\* analyzeByPath requests: the depth limits without exclusions, the
\* exclusion lists with the default depth, the entries that are no file,
\* and an entry under an excluded directory.
SingleRequests ==
    { [mode |-> "single", entries |-> << e >>, projectRoot |-> ProjectRootDir,
       maxDepth |-> d, excludeDirs |-> << >>] :
        e \in { FileA, RelB }, d \in 0..MaxDepthInput }
    \cup
    { [mode |-> "single", entries |-> << e >>, projectRoot |-> ProjectRootDir,
       maxDepth |-> 0, excludeDirs |-> x] :
        e \in { FileA, RelB }, x \in { << PatternDir >>, << Blank, PatternFile >> } }
    \cup
    { [mode |-> "single", entries |-> << e >>, projectRoot |-> ProjectRootDir,
       maxDepth |-> 0, excludeDirs |-> << >>] : e \in { RelNone, DirD, << >> } }
    \cup
    { [mode |-> "single", entries |-> << FileDX >>, projectRoot |-> ProjectRootDir,
       maxDepth |-> 0, excludeDirs |-> << PatternDir >>] }

BatchDisks ==
    { d \in Disks : /\ d.content[FileA] = << RefB >>
                    /\ d.content[FileB] = << RefA, RefALess >> }

BatchRequests ==
    { [mode |-> m, entries |-> es, projectRoot |-> ProjectRootDir,
       maxDepth |-> 0, excludeDirs |-> << >>] :
        m \in { "batch", "upload" },
        es \in SeqsUpTo({ RelA, FileB, RelCPad, RelNone, RelUp, Blank }, MaxEntries) }

\* A request that reads every file of the disk with the default options.
IsPlain(r) ==
    /\ r.maxDepth = 0 /\ r.excludeDirs = << >>
    /\ r.mode = "single" => r.entries[1] \in { FileA, RelB }

Init ==
    /\ \E d \in Disks, r \in SingleRequests \cup BatchRequests,
          sf \in { {}, { FileC }, { FileDX } } :
          /\ r.mode # "single" => d \in BatchDisks
          /\ sf # {} => IsPlain(r)
          /\ sf = { FileDX } => r.mode = "single"
          /\ ~IsPlain(r) /\ r.excludeDirs = << >> /\ r.maxDepth = 0 => d \in BatchDisks
          /\ files = d.files
          /\ content = d.content
          /\ statFails = sf
          /\ request = r
    /\ pc = "start"
    /\ validEntries = << >>
    /\ invalidEntries = << >>
    /\ entryIdx = 1
    /\ trackedFiles = {}
    /\ dependencyGraph = EmptyGraph
    /\ stack = << >>
    /\ thrown = NoError
    /\ analysisResults = << >>
    /\ errors = << >>
    /\ response = NoResponse

Next ==
    \/ AnalyzeByPath
    \/ AnalyzeByPathBatch
    \/ AnalyzeByUpload
    \/ AnalyzeDependencies
    \/ Enter
    \/ ImportStep
    \/ StyleStep
    \/ ReturnFromCall
    \/ AnalysisReturns
    \/ AnalysisThrows
    \/ BatchReturns
    \/ UploadReturns

Spec == Init /\ [][Next]_vars

(***************************************************************************)
(* mergeAnalysisResults on its own, over results drawn from bounded sets   *)
(***************************************************************************)

MaxResults == 2

MsgNothingToMerge == << "n", "o", "t", "h", "i", "n", "g" >>

KeyA == AliasPrefix \o << "a" >> \o ExtJs
KeyB == AliasPrefix \o << "b" >> \o ExtJs
KeyC == AliasPrefix \o << "c" >> \o ExtTs

SampleStatistics(totalFiles, totalDependencies) ==
    [totalFiles |-> totalFiles,
     filesByType |-> [js |-> totalFiles - 1, jsx |-> 0, ts |-> 0, tsx |-> 0,
                      less |-> 1, css |-> 0, other |-> 0],
     totalDependencies |-> totalDependencies]

\* Results with a graph over the keys @/a.js and @/b.js: either key may be
\* missing, the list of @/a.js is any list of at most MaxRefs dependencies
\* (unsorted and repeated ones included).
SampleResults ==
    { [entryFile |-> KeyA, dependencyGraph |-> (KeyA :> deps),
       statistics |-> SampleStatistics(3, Len(deps))] :
          deps \in SeqsUpTo({ KeyB, KeyC }, MaxRefs) }
    \cup
    { [entryFile |-> KeyB, dependencyGraph |-> (KeyA :> deps) @@ (KeyB :> << KeyA >>),
       statistics |-> SampleStatistics(5, Len(deps) + 1)] :
          deps \in SeqsUpTo({ KeyB, KeyC }, MaxRefs) }
    \cup
    { [entryFile |-> KeyB, dependencyGraph |-> (KeyB :> << KeyC, KeyA >>),
       statistics |-> SampleStatistics(2, 2)],
      [entryFile |-> KeyC, dependencyGraph |-> EmptyGraph,
       statistics |-> SampleStatistics(1, 0)] }

MergeInit ==
    /\ files = AllFiles
    /\ content = [f \in AllFiles |-> << >>]
    /\ statFails = {}
    /\ request = [mode |-> "merge", entries |-> << >>, projectRoot |-> ProjectRootDir,
                  maxDepth |-> 0, excludeDirs |-> << >>]
    /\ pc = "merge"
    /\ validEntries = << >>
    /\ invalidEntries = << >>
    /\ entryIdx = 1
    /\ trackedFiles = {}
    /\ dependencyGraph = EmptyGraph
    /\ stack = << >>
    /\ thrown = NoError
    /\ analysisResults \in SeqsUpTo(SampleResults, MaxResults)
    /\ errors = << >>
    /\ response = NoResponse

\* The merge without its test for an empty list: the loops run over nothing.
MergeCallUnchecked ==
    /\ pc = "merge"
    /\ response' = [kind |-> "return", data |-> MergeAnalysisResults(analysisResults)]
    /\ pc' = "done"
    /\ UNCHANGED << diskVars, request, batchVars, trackerVars, thrown >>

\* A call of mergeAnalysisResults(analysisResults).
MergeCall ==
    /\ pc = "merge"
    /\ response' = IF Len(analysisResults) = 0
                   THEN [kind |-> "throw", message |-> MsgNothingToMerge]
                   ELSE [kind |-> "return", data |-> MergeAnalysisResults(analysisResults)]
    /\ pc' = "done"
    /\ UNCHANGED << diskVars, request, batchVars, trackerVars, thrown >>

MergeSpec == MergeInit /\ [][MergeCall]_vars

(***************************************************************************)
(* findFile, the alias round trip of a reference and shouldExclude on      *)
(* their own, over disks and arguments drawn from bounded sets             *)
(***************************************************************************)

\* The candidates of findFile for the path /p/src/m: the path itself, three
\* of its extensions, and index files in it when it is a directory (index.js
\* being itself a directory in one of them).
ProbeBase      == SrcDir \o << "/", "m" >>
ProbeJs        == ProbeBase \o ExtJs
ProbeTs        == ProbeBase \o ExtTs
ProbeJson      == ProbeBase \o ExtJson
ProbeIndexTs   == ProbeBase \o << "/" >> \o IndexName \o ExtTs
ProbeIndexCss  == ProbeBase \o << "/" >> \o IndexName \o ExtCss
ProbeIndexJsDir == ProbeBase \o << "/" >> \o IndexName \o ExtJs \o << "/", "k" >>
ProbeNone      == SrcDir \o << "/", "n" >>

ProbeCandidates ==
    { ProbeBase, ProbeJs, ProbeTs, ProbeJson, ProbeIndexTs, ProbeIndexCss, ProbeIndexJsDir }

\* The disks over the candidates: a path is a file or a directory, not both.
ProbeDisks ==
    { fs \in SUBSET ProbeCandidates :
        ProbeBase \in fs => fs \cap { ProbeIndexTs, ProbeIndexCss, ProbeIndexJsDir } = {} }

\* A file below the source root whose name begins with two dots.
FileDots == SrcDir \o << "/", ".", ".", "x" >> \o ExtJs

AliasDisk == AllFiles \cup { FileDots }

RefDots  == << "@", "/", ".", ".", "x" >>
RefAJs   == << "@", "/", "a" >> \o ExtJs
RefSLess == << "@", "/", "s" >> \o ExtLess
RefAlA   == << "@", "/", "a" >>

AliasReferences == { RefAlA, RefAJs, RefC, RefDX, RefSLess, RefDots }

PatternC    == << "c" >>
PatternD    == << "d" >>
PatternSrcA == << "s", "r", "c", "/", "a" >>
PatternSrc  == << " ", "s", "r", "c", "/" >>
PatternX    == << "x" >> \o ExtJs

ExcludePatterns == { PatternDir, PatternFile, PatternC, PatternD, PatternSrcA, PatternSrc,
                     PatternX, Blank }

UtilsCalls ==
    { [disk |-> fs,
       request |-> [mode |-> "findFile", entries |-> << q >>, projectRoot |-> ProjectRootDir,
                    maxDepth |-> 0, excludeDirs |-> << >>]] :
          fs \in ProbeDisks, q \in { ProbeBase, ProbeJs, ProbeNone } }
    \cup
    { [disk |-> AliasDisk,
       request |-> [mode |-> "alias", entries |-> << ref >>, projectRoot |-> ProjectRootDir,
                    maxDepth |-> 0, excludeDirs |-> << >>]] : ref \in AliasReferences }
    \cup
    { [disk |-> AliasDisk,
       request |-> [mode |-> "exclude", entries |-> << f >>, projectRoot |-> ProjectRootDir,
                    maxDepth |-> 0, excludeDirs |-> << pat >>]] :
          f \in AliasDisk, pat \in ExcludePatterns }

UtilsInit ==
    /\ \E c \in UtilsCalls :
          /\ files = c.disk
          /\ content = [f \in c.disk |-> << >>]
          /\ request = c.request
    /\ statFails = {}
    /\ pc = "call"
    /\ validEntries = << >>
    /\ invalidEntries = << >>
    /\ entryIdx = 1
    /\ trackedFiles = {}
    /\ dependencyGraph = EmptyGraph
    /\ stack = << >>
    /\ thrown = NoError
    /\ analysisResults = << >>
    /\ errors = << >>
    /\ response = NoResponse

\* A call of findFile(filePath).
FindFileCall ==
    /\ pc = "call" /\ request.mode = "findFile"
    /\ response' = [kind |-> "return", value |-> FindFile(request.entries[1])]
    /\ pc' = "done"
    /\ UNCHANGED << diskVars, request, batchVars, trackerVars, thrown >>

\* A reference of the file a.js as the reference loop of trackDependencies
\* treats it (resolveDependency, findFile, path.normalize) and as
\* getDependencyGraph renders the located file (toAliasPath).
AliasCall ==
    /\ pc = "call" /\ request.mode = "alias"
    /\ LET resolvedPath == ResolveDependency(request.entries[1], FileA, SrcRoot)
           foundFile    == IF resolvedPath.tag = "ok" THEN FindFile(resolvedPath.value)
                           ELSE Null
       IN response' =
             IF foundFile.tag = "ok"
             THEN [kind |-> "return", found |-> TRUE,
                   file  |-> Normalize(foundFile.value),
                   alias |-> ToAliasPath(Normalize(foundFile.value), SrcRoot)]
             ELSE [kind |-> "return", found |-> FALSE]
    /\ pc' = "done"
    /\ UNCHANGED << diskVars, request, batchVars, trackerVars, thrown >>

\* A call of tracker.shouldExclude(filePath).
ShouldExcludeCall ==
    /\ pc = "call" /\ request.mode = "exclude"
    /\ response' = [kind |-> "return", value |-> ShouldExclude(request.entries[1])]
    /\ pc' = "done"
    /\ UNCHANGED << diskVars, request, batchVars, trackerVars, thrown >>

UtilsNext == FindFileCall \/ AliasCall \/ ShouldExcludeCall

UtilsSpec == UtilsInit /\ [][UtilsNext]_vars

(***************************************************************************)
(* scripts/directory-tree.js, called on graphs drawn from bounded sets     *)
(***************************************************************************)

MaxTreeDeps  == 2
MaxTreeDepth == 3

\* buildDirectoryTree: rootName = 'src'
RootName == << "s", "r", "c" >>

\* The strings of the drawing. The box-drawing characters are written with
\* one ASCII character each: "L" for U+2514, "T" for U+251C, "-" for U+2500,
\* "|" for U+2502; the three characters of the dependency-count suffix
\* (U+4E2A U+4F9D U+8D56) are written "d", "e", "p".
ConnectorLast == << "L", "-", "-", " " >>
ConnectorMid  == << "T", "-", "-", " " >>
PrefixLast    == << " ", " ", " ", " " >>
PrefixMid     == << "|", " ", " ", " " >>
DepsSuffix    == << " ", "d", "e", "p", ")" >>
NewLine       == "\n"

\* Array.from(set).sort()
RECURSIVE SortSet(_)
SortSet(S) ==
    IF S = {} THEN << >>
    ELSE LET x == CHOOSE y \in S : TRUE IN InsertSorted(x, SortSet(S \ { x }))

\* The vertex without '@/' or './' in front.
StripMarker(filePath) ==
    IF StartsWith(filePath, AliasPrefix) THEN SubSeq(filePath, 3, Len(filePath))
    ELSE IF StartsWith(filePath, << ".", "/" >>) THEN SubSeq(filePath, 3, Len(filePath))
    ELSE filePath

NonEmpty(part) == part # << >>

\* relativePath.split('/').filter(p => p)
TreeParts(filePath) == SelectSeq(Split(StripMarker(filePath)), NonEmpty)

\* The keys of the graph alone.
KeysOnly(dependencies) == DOMAIN dependencies

\* The set allFiles: every key and every dependency of the graph.
AllVertices(dependencies) ==
    DOMAIN dependencies
        \cup UNION { { dependencies[file][k] : k \in 1..Len(dependencies[file]) } :
                        file \in DOMAIN dependencies }

\* A tree is the root's name, the directory nodes below the root (each named
\* by its path of segments from the root) and the file records in the order
\* they were pushed, each with the directory node that holds it.
NewTree(rootName) == [name |-> rootName, dirs |-> {}, files |-> << >>]

\* The body of sortedFiles.forEach for one vertex.
InsertVertex(tree, dependencies, filePath) ==
    LET parts == TreeParts(filePath)
        n     == Len(parts)
        deps  == IF filePath \in DOMAIN dependencies THEN dependencies[filePath]
                 ELSE << >>
    IN IF n = 0 THEN tree
       ELSE [tree EXCEPT
               !.dirs  = @ \cup { SubSeq(parts, 1, k) : k \in 1..(n - 1) },
               !.files = Append(@, [dir          |-> SubSeq(parts, 1, n - 1),
                                     name         |-> parts[n],
                                     fullPath     |-> filePath,
                                     dependencies |-> deps,
                                     depCount     |-> Len(deps)])]

RECURSIVE InsertVertices(_, _, _)
InsertVertices(tree, dependencies, sortedFiles) ==
    IF sortedFiles = << >> THEN tree
    ELSE InsertVertices(InsertVertex(tree, dependencies, Head(sortedFiles)),
                        dependencies, Tail(sortedFiles))

BuildDirectoryTree(dependencies) ==
    InsertVertices(NewTree(RootName), dependencies, SortSet(AllVertices(dependencies)))

\* The child directory nodes of node, by name (every node has files or
\* children, so the comparator decides by localeCompare of the names, which
\* on the lower-case names of the inputs is the code-unit order).
ChildNames(tree, node) ==
    SortSet({ d[Len(d)] : d \in { c \in tree.dirs :
                  Len(c) = Len(node) + 1 /\ SubSeq(c, 1, Len(node)) = node } })

\* node.files.sort((a, b) => a.name.localeCompare(b.name)), a stable sort.
RECURSIVE InsertByName(_, _)
InsertByName(file, sorted) ==
    IF sorted = << >> THEN << file >>
    ELSE IF StrLess(file.name, Head(sorted).name) THEN << file >> \o sorted
    ELSE << Head(sorted) >> \o InsertByName(file, Tail(sorted))

RECURSIVE SortByName(_)
SortByName(fs) ==
    IF fs = << >> THEN << >>
    ELSE InsertByName(fs[1], SortByName(Tail(fs)))

NodeFiles(tree, node) ==
    LET held == SelectSeq(tree.files, LAMBDA file : file.dir = node)
    IN SortByName([k \in 1..Len(held) |-> held[Len(held) + 1 - k]])

\* lines.join('\n')
RECURSIVE JoinLines(_)
JoinLines(lines) ==
    IF lines = << >> THEN << >>
    ELSE IF Len(lines) = 1 THEN Head(lines)
    ELSE Head(lines) \o << NewLine >> \o JoinLines(Tail(lines))

\* text.split('\n').filter(l => l)
RECURSIVE SplitLinesAcc(_, _, _)
SplitLinesAcc(text, cur, acc) ==
    IF text = << >> THEN Append(acc, cur)
    ELSE IF Head(text) = NewLine THEN SplitLinesAcc(Tail(text), << >>, Append(acc, cur))
    ELSE SplitLinesAcc(Tail(text), Append(cur, Head(text)), acc)

SplitLines(text) == SelectSeq(SplitLinesAcc(text, << >>, << >>), NonEmpty)

\* String(n) of a natural number.
Digit(n) == << "0", "1", "2", "3", "4", "5", "6", "7", "8", "9" >>[n + 1]
RECURSIVE NumberToString(_)
NumberToString(n) ==
    IF n < 10 THEN << Digit(n) >> ELSE NumberToString(n \div 10) \o << Digit(n % 10) >>

\* The lines of the files of a node.
FileLines(fs, filePrefix, showDeps) ==
    [k \in 1..Len(fs) |->
        filePrefix
            \o (IF k = Len(fs) THEN ConnectorLast ELSE ConnectorMid)
            \o fs[k].name
            \o (IF showDeps /\ fs[k].depCount > 0
                THEN << " ", "(" >> \o NumberToString(fs[k].depCount) \o DepsSuffix
                ELSE << >>)]

\* generateTreeString(node, {prefix, isLast, maxDepth, currentDepth, showDeps})
RECURSIVE GenerateTreeString(_, _, _, _, _, _, _), ChildLines(_, _, _, _, _, _, _, _)
GenerateTreeString(tree, node, prefix, isLast, maxDepth, currentDepth, showDeps) ==
    IF currentDepth > maxDepth THEN << >>
    ELSE LET connector  == IF isLast THEN ConnectorLast ELSE ConnectorMid
             nextPrefix == IF isLast THEN PrefixLast ELSE PrefixMid
             nodeName   == IF node = << >> THEN tree.name ELSE node[Len(node)]
             header     == IF currentDepth > 0
                           THEN prefix \o connector \o nodeName \o Sep
                           ELSE nodeName \o Sep
             below      == IF currentDepth > 0 THEN prefix \o nextPrefix ELSE << >>
             names      == ChildNames(tree, node)
             fs         == NodeFiles(tree, node)
         IN JoinLines(<< header >>
                \o ChildLines(tree, node, names, 1, below, Len(fs) = 0,
                              [maxDepth |-> maxDepth, currentDepth |-> currentDepth + 1],
                              showDeps)
                \o FileLines(fs, below, showDeps))

\* childEntries.forEach from the index-th child on.
ChildLines(tree, node, names, index, childPrefix, noFiles, depths, showDeps) ==
    IF index > Len(names) THEN << >>
    ELSE LET childLines ==
                 GenerateTreeString(tree, Append(node, names[index]), childPrefix,
                                    index = Len(names) /\ noFiles,
                                    depths.maxDepth, depths.currentDepth, showDeps)
         IN (IF childLines # << >> THEN SplitLines(childLines) ELSE << >>)
                \o ChildLines(tree, node, names, index + 1, childPrefix, noFiles,
                              depths, showDeps)

\* Vertices as getDependencyGraph names them: files below the source root,
\* a file outside it, and the source root itself (a directory entry).
VertexA     == AliasPrefix \o << "a" >> \o ExtJs
VertexDX    == AliasPrefix \o << "d", "/", "x" >> \o ExtJs
VertexDEC   == AliasPrefix \o << "d", "/", "e", "/", "c" >> \o ExtTs
VertexDEDB  == AliasPrefix \o << "d", "/", "e", "/", "d", "/", "b" >> \o ExtJs
VertexOut   == FileOut
VertexRoot  == AliasPrefix

\* Graphs with at most two keys, each with at most MaxTreeDeps dependencies.
TreeGraphs ==
    { (k1 :> l1) @@ (k2 :> l2) :
        k1 \in { VertexA, VertexRoot }, k2 \in { VertexA, VertexDX, VertexDEDB },
        l1 \in SeqsUpTo({ VertexDX, VertexOut }, MaxTreeDeps),
        l2 \in SeqsUpTo({ VertexDEC, VertexA }, MaxTreeDeps) }
    \cup { EmptyGraph }

TreeInit ==
    /\ \E graph \in TreeGraphs, depth \in 0..MaxTreeDepth, showDeps \in BOOLEAN :
          request = [mode |-> "tree", entries |-> << >>, projectRoot |-> ProjectRootDir,
                     maxDepth |-> 0, excludeDirs |-> << >>, graph |-> graph,
                     treeDepth |-> depth, showDeps |-> showDeps]
    /\ files = AllFiles
    /\ content = [f \in AllFiles |-> << >>]
    /\ statFails = {}
    /\ pc = "call"
    /\ validEntries = << >>
    /\ invalidEntries = << >>
    /\ entryIdx = 1
    /\ trackedFiles = {}
    /\ dependencyGraph = EmptyGraph
    /\ stack = << >>
    /\ thrown = NoError
    /\ analysisResults = << >>
    /\ errors = << >>
    /\ response = NoResponse

\* const tree = buildDirectoryTree(dependencyGraph)
BuildDirectoryTreeCall ==
    /\ pc = "call" /\ request.mode = "tree"
    /\ response' = [kind |-> "tree", tree |-> BuildDirectoryTree(request.graph)]
    /\ pc' = "built"
    /\ UNCHANGED << diskVars, request, batchVars, trackerVars, thrown >>

\* const directoryTree = generateTreeString(tree, {maxDepth: treeDepth, showDeps})
GenerateTreeStringCall ==
    /\ pc = "built" /\ request.mode = "tree"
    /\ response' = [kind |-> "return", tree |-> response.tree,
                    value |-> GenerateTreeString(response.tree, << >>, << >>, TRUE,
                                                 request.treeDepth, 0, request.showDeps)]
    /\ pc' = "done"
    /\ UNCHANGED << diskVars, request, batchVars, trackerVars, thrown >>

TreeNext == BuildDirectoryTreeCall \/ GenerateTreeStringCall

TreeSpec == TreeInit /\ [][TreeNext]_vars

(***************************************************************************)
(* What the properties below speak about                                   *)
(***************************************************************************)

\* The traversal of the current entry is over and nothing was raised.
TrackDone == pc = "track" /\ stack = << >>

\* p is dir or lies below it (whole path segments).
LiesWithin(p, dir) == p = dir \/ StartsWith(p, dir \o Sep)

PathSegments(p) == NormSegs(Split(p), << >>, FALSE)

\* Some non-blank exclusion pattern is a run of whole segments of the
\* project-relative path of p.
UnderExcludedPath(p) ==
    LET relSegs == PathSegments(Relative(ProjectRoot, p))
    IN \E k \in 1..Len(ExcludeDirs) :
          LET patSegs == PathSegments(Trim(ExcludeDirs[k]))
          IN /\ patSegs # << >>
             /\ \E i \in 0..(Len(relSegs) - Len(patSegs)) :
                   SubSeq(relSegs, i + 1, i + Len(patSegs)) = patSegs

Range(seq) == { seq[k] : k \in 1..Len(seq) }

GraphValues == UNION { Range(dependencyGraph[k]) : k \in DOMAIN dependencyGraph }

\* A file the traversal may accept: a file of the disk that can be read,
\* inside the project, outside node_modules and under no excluded path.
Trackable(p) ==
    /\ p \in files /\ p \notin statFails
    /\ LiesWithin(p, ProjectRoot)
    /\ ~Includes(p, NodeModules)
    /\ ~UnderExcludedPath(p)

\* The same-basename stylesheets of a code file that are on disk.
Companions(f) ==
    IF IsStyleFile(f) THEN {}
    ELSE { SubSeq(f, 1, Len(f) - Len(Extname(f))) \o ext : ext \in { ExtLess, ExtCss } }
         \cap files

\* The files the references of f denote.
Referenced(f) ==
    { loc.value : loc \in
        { LET r == ResolveDependency(content[f][k], f, SrcRoot)
          IN IF r.tag = "ok" THEN FindFile(r.value) ELSE Null :
              k \in 1..Len(content[f]) } \ { Null } }

Successors(f) == { g \in Referenced(f) \cup Companions(f) : Trackable(g) }

RECURSIVE Closure(_)
Closure(S) ==
    LET N == S \cup UNION { Successors(f) : f \in S }
    IN IF N = S THEN S ELSE Closure(N)

ReachableFrom(entry) == IF Trackable(entry) THEN Closure({ entry }) ELSE {}

(***************************************************************************)
(* C1 - C5: the traversal                                                  *)
(***************************************************************************)

\* C1: when the traversal of an entry file is over and the depth limit is
\* out of reach, the keys of the dependency graph are exactly the trackable
\* files reachable from the entry through references and companion
\* stylesheets.
C1_KeysAreReachableFiles ==
    (TrackDone /\ TrackerMaxDepth = DefaultMaxDepth
        /\ ResolvedEntry(CurrentEntry) \in files)
    => DOMAIN dependencyGraph = ReachableFrom(ResolvedEntry(CurrentEntry))

\* C3: after a run no key and no dependency of the graph lies under an
\* excluded path.
C3_NothingExcludedInGraph ==
    TrackDone => \A p \in DOMAIN dependencyGraph \cup GraphValues : ~UnderExcludedPath(p)

\* C4: no file outside the project root is ever tracked: it is no key, no
\* dependency and not counted.
C4_NothingOutsideProject ==
    \A p \in trackedFiles \cup DOMAIN dependencyGraph \cup GraphValues :
        LiesWithin(p, ProjectRoot)

\* C5: after a run every code file that is a key and has a same-basename
\* .less sibling on disk has that sibling in its own dependency list.
C5_CompanionAlwaysLinked ==
    TrackDone =>
        \A k \in DOMAIN dependencyGraph :
            (k \in files /\ ~IsStyleFile(k)
                /\ SubSeq(k, 1, Len(k) - Len(Extname(k))) \o ExtLess \in files)
            => SubSeq(k, 1, Len(k) - Len(Extname(k))) \o ExtLess
                   \in Range(dependencyGraph[k])

\* The steps an activation record still has to take: a call its entry, a
\* reference loop two per reference left (the iteration and the entry of the
\* call it may issue) and then its companion probe, a probe two per
\* extension left, and the return.
FrameWork(f) ==
    CASE f.phase = "call"    -> 1
      [] f.phase = "imports" ->
            2 * (Len(f.imports) + 1 - f.i)
            + (IF f.isStyle THEN 1 ELSE 2 * Len(StyleExtensions) + 1)
      [] f.phase = "style"   -> 2 * (Len(StyleExtensions) + 1 - f.i) + 1

\* The most steps one file can add when it is expanded.
FileWork ==
    LET longest == CHOOSE n \in { Len(content[f]) : f \in files } :
                      \A f \in files : Len(content[f]) <= n
    IN 2 * longest + 2 * Len(StyleExtensions) + 2

\* The variant of the traversal: the work of the records on the stack and
\* the work of every path that can still be marked as visited.
Remaining ==
    SumOver(1..Len(stack), [k \in 1..Len(stack) |-> FrameWork(stack[k])])
    + FileWork * (Cardinality(files) + 1 - Cardinality(trackedFiles))

\* The traversal has a step to take.
HasNextStep ==
    LET f == Top(stack)
    IN \/ f.phase = "call"
       \/ /\ f.phase = "imports" /\ f.i <= Len(f.imports)
          /\ Len(stack) < MaxStack
       \/ /\ ~f.isStyle
          /\ (f.phase = "imports" /\ f.i > Len(f.imports)) \/ f.phase = "style"
          /\ StyleIndex(f) <= Len(StyleExtensions)
          /\ Len(stack) < MaxStack
       \/ f.phase = "imports" /\ f.i > Len(f.imports) /\ f.isStyle
       \/ f.phase = "style" /\ f.i > Len(StyleExtensions)

\* C2: a run of trackDependencies returns (or raises) after finitely many
\* steps, whatever cycles and companion stylesheets the disk holds: every
\* step of a running traversal lowers a variant that never falls below
\* zero, and a traversal that has not returned or raised has a step to take.
C2_TraversalReturns ==
    [][ /\ (pc = "track" /\ stack # << >>) =>
              /\ Remaining' < Remaining
              /\ Remaining' >= 0
        /\ (pc' = "track" /\ stack' # << >>) => HasNextStep' ]_vars

\* A traversal that returned after it met the file d/x.js that refers to
\* itself, the two files a.js and b.js that refer to each other, the loop
\* a.js -> d/x.js -> c.ts -> a.js and the companion a.less.
C2_CycleTraversed ==
    /\ TrackDone
    /\ content[FileA] = << RefB, RefDX >> /\ RefA \in Range(content[FileB])
    /\ RefDX \in Range(content[FileDX]) /\ RefA \in Range(content[FileC])
    /\ { FileA, FileB, FileDX, FileC, FileALess } \subseteq trackedFiles

(***************************************************************************)
(* C6 - C8: the merge                                                      *)
(***************************************************************************)

\* The lists of one key in the inputs, one after the other.
RECURSIVE ConcatLists(_, _)
ConcatLists(results, file) ==
    IF results = << >> THEN << >>
    ELSE (IF file \in DOMAIN Head(results).dependencyGraph
          THEN Head(results).dependencyGraph[file] ELSE << >>)
         \o ConcatLists(Tail(results), file)

FirstIndex(seq, x) == CHOOSE i \in 1..Len(seq) : seq[i] = x /\ \A j \in 1..(i - 1) : seq[j] # x

\* C6: the merged graph has the union of the inputs' keys; the list of a key
\* holds exactly the dependencies of that key in the inputs, each once, in
\* the order of their first appearance.
C6_MergedGraphIsUnion ==
    (pc = "done" /\ response.kind = "return") =>
        LET merged == response.data.dependencyGraph
        IN /\ DOMAIN merged =
                UNION { DOMAIN analysisResults[k].dependencyGraph :
                            k \in 1..Len(analysisResults) }
           /\ \A file \in DOMAIN merged :
                LET all == ConcatLists(analysisResults, file)
                    out == merged[file]
                IN /\ Range(out) = Range(all)
                   /\ \A i, j \in 1..Len(out) : i < j =>
                         /\ out[i] # out[j]
                         /\ FirstIndex(all, out[i]) < FirstIndex(all, out[j])

\* Two inputs share a key, their lists overlap in part, and the merge put a
\* dependency of the second input behind those of the first.
C6_OverlappingListsMerged ==
    /\ pc = "done" /\ response.kind = "return" /\ Len(analysisResults) = 2
    /\ KeyA \in DOMAIN analysisResults[1].dependencyGraph
    /\ KeyA \in DOMAIN analysisResults[2].dependencyGraph
    /\ analysisResults[1].dependencyGraph[KeyA] = << KeyC, KeyC >>
    /\ analysisResults[2].dependencyGraph[KeyA] = << KeyB, KeyC >>
    /\ response.data.dependencyGraph[KeyA] = << KeyC, KeyB >>

\* The sum of one statistic over the collected per-entry results.
SumOfResults(name) ==
    SumOver(1..Len(analysisResults),
            [k \in 1..Len(analysisResults) |->
                StatField(analysisResults[k].statistics, name)])

\* The request ended with a merged result.
BatchSucceeded ==
    /\ pc = "done" /\ request.mode \in { "batch", "upload" } /\ ~IsSingleAnalysis
    /\ response.kind = "return" /\ response.success

\* C7: in a merged result totalFiles and totalDependencies are the sums of
\* the per-entry values.
C7_TotalsAreSums ==
    BatchSucceeded =>
        /\ response.data.statistics.totalFiles = SumOfResults("totalFiles")
        /\ response.data.statistics.totalDependencies = SumOfResults("totalDependencies")

\* Two entries reached the same file: it is one key of the merged graph and
\* counts twice in totalFiles.
C7_SharedFileCountedTwice ==
    /\ BatchSucceeded /\ Len(analysisResults) = 2
    /\ KeyA \in DOMAIN analysisResults[1].dependencyGraph
    /\ KeyA \in DOMAIN analysisResults[2].dependencyGraph
    /\ KeyA \in DOMAIN response.data.dependencyGraph
    /\ response.data.statistics.totalFiles
           = analysisResults[1].statistics.totalFiles
             + analysisResults[2].statistics.totalFiles
    /\ response.data.statistics.totalFiles
           > Cardinality(DOMAIN response.data.dependencyGraph)

TrackerCounters == { "js", "jsx", "ts", "tsx", "less", "css", "other" }

\* C8: every per-extension counter of the tracker is in the merged
\* statistics, with the sum of that counter over the inputs.
C8_EveryCounterSummed ==
    BatchSucceeded =>
        \A name \in TrackerCounters :
            /\ name \in DOMAIN response.data.statistics.filesByType
            /\ response.data.statistics.filesByType[name] = SumOfResults(name)

(***************************************************************************)
(* C9, C10: the batch                                                      *)
(***************************************************************************)

\* The analysis of a valid entry raises: reading the entry file fails.
EntryFails(entryPath) == Resolve1(entryPath) \in statFails
EntryWorks(entryPath) == ~EntryFails(entryPath)

\* The request runs the loop over the valid entries: analyzeByPathBatch with
\* a valid entry, analyzeByUpload with several.
InBatchLoop ==
    \/ request.mode = "batch" /\ Len(validEntries) > 0
    \/ request.mode = "upload" /\ Len(validEntries) > 1

IsBlank(str) == \A k \in 1..Len(str) : str[k] = " "
NotBlank(str) == ~IsBlank(str)

\* The path an entry names: itself when absolute, else below the root.
NamedPath(entry) ==
    IF IsAbsolute(Trim(entry)) THEN Trim(entry)
    ELSE Join(ProjectRoot, Trim(entry))

OnDisk(path) ==
    LET abs == Resolve1(path)
    IN abs \in files \/ \E f \in files : LiesWithin(f, abs)

EntryGood(entry) == OnDisk(NamedPath(entry)) /\ LiesWithin(Resolve1(NamedPath(entry)), ProjectRoot)
EntryBad(entry) == ~EntryGood(entry)

\* C10: validateEntryFiles with a project root raises nothing (an error the
\* request ends with was raised by the analysis of an entry it accepted) and
\* sorts every non-blank entry into exactly one list: into validEntries (as
\* the path it names) when that path exists inside the project root, else
\* into invalidEntries (trimmed).
C10_EntriesPartitioned ==
    (pc # "start" /\ request.mode \in { "batch", "upload" } /\ Len(request.entries) > 0) =>
        LET given == SelectSeq(request.entries, NotBlank)
            good  == SelectSeq(given, EntryGood)
            bad   == SelectSeq(given, EntryBad)
        IN /\ validEntries = [k \in 1..Len(good) |-> NamedPath(good[k])]
           /\ invalidEntries = [k \in 1..Len(bad) |-> Trim(bad[k])]
           /\ Len(validEntries) + Len(invalidEntries) = Len(given)
           /\ response.kind = "throw" => Len(validEntries) > 0

\* A padded entry was accepted, an entry of the sibling directory /pq was
\* rejected.
C10_PaddedValidSiblingInvalid ==
    /\ pc # "start" /\ request.mode \in { "batch", "upload" }
    /\ request.entries = << RelCPad, RelUp >>
    /\ validEntries = << FileC >>
    /\ invalidEntries = << RelUp >>

(***************************************************************************)
(* C11: the entry of an analysis                                           *)
(***************************************************************************)

\* The path analyzeByPath hands on is no regular file of the disk.
EntryIsNoFile ==
    request.mode = "single" /\ ResolvedEntry(request.entries[1]) \notin files

\* C11: an analysis whose entry path is absent or is no regular file (a
\* directory) starts no traversal and ends with an error, never with a
\* result.
C11_NonFileEntryAborts ==
    EntryIsNoFile =>
        /\ pc # "track"
        /\ pc = "done" => response.kind = "throw"

(***************************************************************************)
(* C12: the merge of nothing                                               *)
(***************************************************************************)

\* C12: mergeAnalysisResults of an empty list raises the empty-input error
\* and hands back no data.
C12_EmptyMergeFails ==
    (request.mode = "merge" /\ pc = "done" /\ analysisResults = << >>) =>
        response = [kind |-> "throw", message |-> MsgNothingToMerge]

\* The merge was called with an empty list and has raised.
C12_EmptyMergeCalled ==
    /\ request.mode = "merge" /\ pc = "done" /\ analysisResults = << >>
    /\ response.kind = "throw"

(***************************************************************************)
(* C13: findFile                                                           *)
(***************************************************************************)

\* The order in which findFile is to try the extensions.
PreferenceOrder == << ExtJs, ExtJsx, ExtTs, ExtTsx, ExtLess, ExtCss, ExtJson >>

IsDirOnDisk(q) == \E f \in files : StartsWith(f, q \o Sep)

IndexIn(q, k) == q \o Sep \o << "i", "n", "d", "e", "x" >> \o PreferenceOrder[k]

\* The first position of the order that meets the test, 0 when none does.
FirstIn(Test(_)) ==
    IF \E k \in 1..Len(PreferenceOrder) : Test(k)
    THEN CHOOSE k \in 1..Len(PreferenceOrder) : Test(k) /\ \A j \in 1..(k - 1) : ~Test(j)
    ELSE 0

\* What findFile(q) is to return.
FirstCandidate(q) ==
    LET IsSibling(k) == (q \o PreferenceOrder[k]) \in files
        IsIndex(k)   == IndexIn(q, k) \in files \/ IsDirOnDisk(IndexIn(q, k))
        sibling      == FirstIn(IsSibling)
        index        == FirstIn(IsIndex)
    IN IF q \in files THEN Ok(q)
       ELSE IF sibling > 0 THEN Ok(q \o PreferenceOrder[sibling])
       ELSE IF IsDirOnDisk(q) /\ index > 0 THEN Ok(IndexIn(q, index))
       ELSE Null

\* C13: findFile returns the first existing candidate of the fixed order:
\* the path itself when it is a file, else the path with the first extension
\* of .js, .jsx, .ts, .tsx, .less, .css, .json that is a file, else for a
\* directory its index with the first extension that exists in it, else
\* null.
C13_FindFileOrder ==
    (request.mode = "findFile" /\ pc = "done") =>
        response.value = FirstCandidate(request.entries[1])

\* Both m.js and m.ts are on disk, m itself is not, and findFile(m) gave m.js.
C13_JsBeforeTs ==
    /\ request.mode = "findFile" /\ pc = "done"
    /\ request.entries[1] = ProbeBase
    /\ { ProbeJs, ProbeTs } \subseteq files /\ ProbeBase \notin files
    /\ response.value = Ok(ProbeJs)

(***************************************************************************)
(* C14: the alias round trip                                               *)
(***************************************************************************)

\* The path p of a reference '@/p'.
AliasTarget(ref) == SubSeq(ref, Len(AliasPrefix) + 1, Len(ref))

\* The reference names a file below the source root, with or without its
\* extension.
NamesSourceFile(ref) ==
    LET q == SrcDir \o Sep \o AliasTarget(ref)
    IN q \in files \/ \E k \in 1..Len(PreferenceOrder) : (q \o PreferenceOrder[k]) \in files

\* C14: a reference '@/p' to a file below the source root is located as
\* <sourceRoot>/p, completed with the located extension, and that file is
\* rendered as '@/p' with the same completion.
C14_AliasRoundTrip ==
    (request.mode = "alias" /\ pc = "done" /\ NamesSourceFile(request.entries[1])) =>
        LET q == AliasTarget(request.entries[1])
        IN /\ response.found
           /\ \E completion \in { << >> } \cup Range(PreferenceOrder) :
                 /\ response.file  = SrcDir \o Sep \o q \o completion
                 /\ response.alias = AliasPrefix \o q \o completion

(***************************************************************************)
(* C15, C16: the result of an analysis                                     *)
(***************************************************************************)

\* C15: in the result of a single-entry analysis totalFiles is the number
\* of keys of the dependency graph.
C15_TotalFilesCountsKeys ==
    (request.mode = "single" /\ pc = "done" /\ response.kind = "return") =>
        response.data.statistics.totalFiles
            = Cardinality(DOMAIN response.data.dependencyGraph)

\* C16: two analyses of the same entry in one request, on the same disk
\* and with the same options, return the same graph and the same statistics.
C16_SameEntrySameResult ==
    (request.mode \in { "batch", "upload" } /\ errors = << >>) =>
        \A i, j \in 1..Len(analysisResults) :
            validEntries[i] = validEntries[j] =>
                /\ analysisResults[i].dependencyGraph = analysisResults[j].dependencyGraph
                /\ analysisResults[i].statistics = analysisResults[j].statistics

\* The entry src/a.js was analysed twice and both results hold its graph.
C16_AnalysedTwice ==
    /\ request.mode = "batch" /\ pc = "done"
    /\ validEntries = << FileA, FileA >> /\ Len(analysisResults) = 2
    /\ analysisResults[1] = analysisResults[2]
    /\ Cardinality(DOMAIN analysisResults[2].dependencyGraph) > 1
    /\ analysisResults[2].statistics.totalDependencies > 0

(***************************************************************************)
(* C17 - C19: visiting, companions and the depth limit                     *)
(***************************************************************************)

\* The file on disk that the graph key k was expanded as.
ExpandedAs(k) == FindFile(k)

\* C17: within one tracker run no file is expanded twice: no two keys of
\* the dependency graph were expanded as the same file on disk.
C17_ExpandedAtMostOnce ==
    pc = "track" =>
        \A k1, k2 \in DOMAIN dependencyGraph :
            (ExpandedAs(k1).tag = "ok" /\ ExpandedAs(k1) = ExpandedAs(k2)) => k1 = k2

\* The companion stylesheets the run linked to the code file under key k.
LinkedCompanions(k) ==
    IF ExpandedAs(k).tag = "ok"
    THEN Companions(ExpandedAs(k).value) \cap Range(dependencyGraph[k])
    ELSE {}

\* C18: when the traversal is over and the depth limit is out of reach,
\* every companion stylesheet linked to a code file is itself a key of the
\* graph and every trackable file it references is among its edges and is
\* a key too.
C18_CompanionExpanded ==
    (TrackDone /\ TrackerMaxDepth = DefaultMaxDepth) =>
        \A k \in DOMAIN dependencyGraph : \A c \in LinkedCompanions(k) :
            /\ c \in DOMAIN dependencyGraph
            /\ \A g \in Referenced(c) :
                   Trackable(g) => /\ g \in Range(dependencyGraph[c])
                                   /\ g \in DOMAIN dependencyGraph

\* The recursion depth at which the step about to be taken reaches a file:
\* the depth of the activation that starts, or one more than the depth of
\* the activation that probes for a companion.
ReachDepth == IF Top(stack).phase = "call" THEN Top(stack).depth
              ELSE Top(stack).depth + 1

\* C19: no step of the traversal puts a file reached at a depth greater
\* than maxDepth into the tracked set or gives it a graph entry.
C19_NothingBeyondMaxDepth ==
    [][ (pc = "track" /\ stack # << >>) =>
            \A p \in (trackedFiles' \ trackedFiles)
                      \cup (DOMAIN dependencyGraph' \ DOMAIN dependencyGraph) :
                ReachDepth <= TrackerMaxDepth ]_vars

(***************************************************************************)
(* C20: shouldExclude                                                      *)
(***************************************************************************)

\* C20: shouldExclude(file) is true exactly when a non-blank pattern is a
\* run of whole segments of the project-relative path of the file.
C20_ExcludesOnSegmentBoundaries ==
    (request.mode = "exclude" /\ pc = "done") =>
        (response.value <=> UnderExcludedPath(request.entries[1]))

(***************************************************************************)
(* C21: errors of a single reference                                       *)
(***************************************************************************)

\* The k-th reference of file f names a file the tracker accepts.
GoodReference(f, k) ==
    LET r   == ResolveDependency(content[f][k], f, SrcRoot)
        loc == IF r.tag = "ok" THEN FindFile(r.value) ELSE Null
    IN loc.tag = "ok" /\ AcceptDependency(Normalize(loc.value))

\* The k-th reference of file f raises when it is located.
FailingReference(f, k) ==
    LET r == ResolveDependency(content[f][k], f, SrcRoot)
    IN r.tag = "ok" /\ FindFile(r.value).tag = "throw"

ReferenceTarget(f, k) ==
    Normalize(FindFile(ResolveDependency(content[f][k], f, SrcRoot).value).value)

\* C21: on a disk where locating some file raises, an analysis whose entry
\* can be read never raises, and when its traversal is over every expanded
\* file has each of its other references as an edge, the target tracked,
\* and its companion stylesheets tracked.
C21_FailingReferenceSkippedAlone ==
    (request.mode = "single" /\ statFails # {}
        /\ EntryWorks(ResolvedEntry(CurrentEntry))) =>
        /\ pc # "threw"
        /\ TrackDone =>
              \A key \in DOMAIN dependencyGraph :
                  LET f == ExpandedAs(key).value
                  IN /\ \A k \in 1..Len(content[f]) :
                            GoodReference(f, k) =>
                                /\ ReferenceTarget(f, k) \in Range(dependencyGraph[key])
                                /\ ReferenceTarget(f, k) \in trackedFiles
                     /\ Companions(f) \subseteq trackedFiles

\* The traversal is over; the first reference of a.js raised, its second
\* reference became an edge and was expanded, and its companion was linked.
C21_LaterReferenceFollowed ==
    /\ TrackDone /\ request.mode = "single"
    /\ FileA \in DOMAIN dependencyGraph
    /\ Len(content[FileA]) = 2
    /\ FailingReference(FileA, 1) /\ GoodReference(FileA, 2)
    /\ ReferenceTarget(FileA, 2) \in Range(dependencyGraph[FileA])
    /\ ReferenceTarget(FileA, 2) \in DOMAIN dependencyGraph
    /\ FileALess \in Range(dependencyGraph[FileA])

(***************************************************************************)
(* C22: the entries of a batch are analysed independently                  *)
(***************************************************************************)

\* The traversal of one entry by a tracker of its own, as a function of the
\* disk and the options: st is the tracker's state [t: the tracked set,
\* g: the adjacency map].
RECURSIVE AloneVisit(_, _, _), AloneImports(_, _, _, _, _, _), AloneStyles(_, _, _, _, _)

AloneVisit(filePath, depth, st) ==
    LET absolutePath   == IF IsAbsolute(filePath) THEN filePath
                          ELSE Resolve(ProjectRoot, filePath)
        normalizedPath == Normalize(absolutePath)
        found          == FindFile(normalizedPath)
    IN IF \/ depth > TrackerMaxDepth
          \/ normalizedPath \in st.t
          \/ ~InProject(normalizedPath)
          \/ Includes(normalizedPath, NodeModules)
          \/ ShouldExclude(normalizedPath)
          \/ found.tag # "ok"
       THEN st
       ELSE LET marked == [t |-> st.t \cup { normalizedPath },
                           g |-> EnsureKey(st.g, normalizedPath)]
                read   == AloneImports(normalizedPath, found.value,
                                       ParseImports(found.value), 1, depth, marked)
            IN IF IsStyleFile(found.value) THEN read
               ELSE AloneStyles(normalizedPath, found.value, 1, depth, read)

AloneImports(key, actualFile, imports, i, depth, st) ==
    IF i > Len(imports) THEN st
    ELSE LET resolvedPath  == ResolveDependency(imports[i], actualFile, SrcRoot)
             foundFile     == IF resolvedPath.tag = "ok" THEN FindFile(resolvedPath.value)
                              ELSE Null
             normalizedDep == Normalize(foundFile.value)
         IN IF foundFile.tag = "ok" /\ AcceptDependency(normalizedDep)
            THEN AloneImports(key, actualFile, imports, i + 1, depth,
                     AloneVisit(normalizedDep, depth + 1,
                                [st EXCEPT !.g = PushEdge(st.g, key, normalizedDep)]))
            ELSE AloneImports(key, actualFile, imports, i + 1, depth, st)

AloneStyles(key, actualFile, k, depth, st) ==
    IF k > Len(StyleExtensions) THEN st
    ELSE LET styleFile       == BasePath(actualFile) \o StyleExtensions[k]
             normalizedStyle == Normalize(styleFile)
         IN IF ExistsSync(styleFile) /\ normalizedStyle \notin st.t
            THEN AloneStyles(key, actualFile, k + 1, depth,
                     AloneVisit(normalizedStyle, depth + 1,
                                [t |-> st.t \cup { normalizedStyle },
                                 g |-> PushEdge(st.g, key, normalizedStyle)]))
            ELSE AloneStyles(key, actualFile, k + 1, depth, st)

AnalysedAlone(entry) ==
    AloneVisit(ResolvedEntry(entry), 0, [t |-> {}, g |-> EmptyGraph])

\* C22: when the traversal of an entry is over, in a batch as in a
\* single-entry analysis, the tracker holds exactly the tracked set and the
\* adjacency map that the analysis of that entry alone produces, whatever
\* entries were analysed before it; graph and statistics of the entry's
\* result are computed from these two.
C22_EntryAnalysedAsIfAlone ==
    TrackDone =>
        [t |-> trackedFiles, g |-> dependencyGraph] = AnalysedAlone(CurrentEntry)

\* The traversal of the second entry of a batch is over, after the result
\* of a different first entry was stored.
C22_SecondEntryOfBatch ==
    /\ TrackDone /\ request.mode = "batch"
    /\ entryIdx = 2 /\ Len(analysisResults) = 1
    /\ validEntries[1] # validEntries[2]
    /\ Cardinality(DOMAIN dependencyGraph) > 1
    /\ analysisResults[1].statistics.totalDependencies > 0

(***************************************************************************)
(* C23: repeated references                                                *)
(***************************************************************************)

\* How often x occurs in the list seq.
Occurrences(seq, x) == Cardinality({ k \in 1..Len(seq) : seq[k] = x })

\* How many references of file f the tracker accepts and locates as g.
ReferencesTo(f, g) ==
    Cardinality({ k \in 1..Len(content[f]) :
                     GoodReference(f, k) /\ ReferenceTarget(f, k) = g })

SingleResult ==
    request.mode = "single" /\ pc = "done" /\ response.kind = "return"

\* C23: in a single-entry result the dependency list of every expanded file
\* holds a target as often as the file's references name it (a companion
\* stylesheet aside, which the probe may add once more), and
\* totalDependencies is the total length of the lists, repetitions included.
C23_RepeatedReferenceKept ==
    SingleResult =>
        LET graph == response.data.dependencyGraph
        IN /\ \A key \in DOMAIN dependencyGraph :
                 LET f == ExpandedAs(key).value
                 IN \A g \in Range(dependencyGraph[key]) \ Companions(f) :
                        Occurrences(graph[ToAliasPath(key, SrcRoot)],
                                    ToAliasPath(g, SrcRoot)) = ReferencesTo(f, g)
           /\ response.data.statistics.totalDependencies
                  = SumOver(DOMAIN graph, [key \in DOMAIN graph |-> Len(graph[key])])

\* a.js names b.js twice and its list in the result holds @/b.js twice.
C23_SameTargetTwice ==
    /\ SingleResult
    /\ content[FileA] = << RefB, RefB >>
    /\ KeyA \in DOMAIN response.data.dependencyGraph
    /\ Occurrences(response.data.dependencyGraph[KeyA], KeyB) = 2
    /\ response.data.statistics.totalDependencies >= 2

(***************************************************************************)
(* C24, C25: the directory tree                                            *)
(***************************************************************************)

TreeBuilt == request.mode = "tree" /\ pc \in { "built", "done" }

\* The vertices of the graph handed to buildDirectoryTree.
GraphVertices ==
    DOMAIN request.graph \cup UNION { Range(request.graph[key]) : key \in DOMAIN request.graph }

\* The leaf file records of the tree made for vertex v.
RecordsOf(v) ==
    { k \in 1..Len(response.tree.files) : response.tree.files[k].fullPath = v }

ListLength(v) ==
    IF v \in DOMAIN request.graph THEN Len(request.graph[v]) ELSE 0

DrawnLines == SplitLinesAcc(response.value, << >>, << >>)

\* The level of a drawn line: 0 for the line of the root, else the number
\* of four-character columns up to and including its connector.
LineLevel(line) ==
    LET marks == { k \in 1..Len(line) : line[k] \in { "L", "T" } }
    IN IF marks = {} THEN 0
       ELSE (CHOOSE k \in marks : \A j \in marks : k <= j) \div 4 + 1

\* C25: the drawing made with maximum depth d holds no line, of a directory
\* or of a file, of a level greater than d.
C25_NothingDrawnBelowMaxDepth ==
    (request.mode = "tree" /\ pc = "done") =>
        \A k \in 1..Len(DrawnLines) : LineLevel(DrawnLines[k]) <= request.treeDepth

(***************************************************************************)
(* C26, C27: which files are keys                                          *)
(***************************************************************************)

\* C26: in a single-entry result every identifier of a dependency list is
\* a key of the graph.
C26_GraphClosedUnderEdges ==
    SingleResult =>
        LET graph == response.data.dependencyGraph
        IN \A key \in DOMAIN graph : Range(graph[key]) \subseteq DOMAIN graph

\* The trackable files a chain of at most n references leads to from S.
RECURSIVE WithinReferences(_, _)
WithinReferences(S, n) ==
    LET N == S \cup { g \in UNION { Referenced(f) : f \in S } : Trackable(g) }
    IN IF n = 0 \/ N = S THEN S ELSE WithinReferences(N, n - 1)

\* C27: when the traversal of an entry file is over, and nothing is
\* excluded, every trackable file that a chain of at most maxDepth
\* references connects to the entry is a key of the graph. Stylesheets are
\* left aside here (a stylesheet first met as a companion is no key, C18),
\* so what is stated is the claim for code files.
C27_FilesWithinDepthAreKeys ==
    (TrackDone /\ request.excludeDirs = << >>
        /\ Trackable(ResolvedEntry(CurrentEntry))) =>
        \A g \in WithinReferences({ ResolvedEntry(CurrentEntry) }, TrackerMaxDepth) :
            ~IsStyleFile(g) => g \in DOMAIN dependencyGraph

(***************************************************************************)
(* C28, C29: the single-entry result                                       *)
(***************************************************************************)

\* C28: the graph of every single-entry result has a key for the entry and
\* its totalFiles is at least 1.
C28_EntryIsKey ==
    SingleResult =>
        /\ ToAliasPath(Normalize(ResolvedEntry(request.entries[1])), SrcRoot)
               \in DOMAIN response.data.dependencyGraph
        /\ response.data.statistics.totalFiles >= 1

\* C29: in every single-entry result the seven filesByType counters sum to
\* totalFiles, and totalDependencies is the sum of the lengths of the
\* dependency lists of the returned graph.
C29_CountersAddUp ==
    SingleResult =>
        LET stats == response.data.statistics
            types == stats.filesByType
            graph == response.data.dependencyGraph
        IN /\ DOMAIN types = { "js", "jsx", "ts", "tsx", "less", "css", "other" }
           /\ types.js + types.jsx + types.ts + types.tsx
                  + types.less + types.css + types.other = stats.totalFiles
           /\ stats.totalDependencies
                  = SumOver(DOMAIN graph, [key \in DOMAIN graph |-> Len(graph[key])])

\* A result with code files of two kinds, a stylesheet and several edges.
C29_MixedResult ==
    /\ SingleResult
    /\ response.data.statistics.filesByType.js >= 2
    /\ response.data.statistics.filesByType.ts >= 1
    /\ response.data.statistics.filesByType.less >= 1
    /\ response.data.statistics.totalFiles >= 4
    /\ response.data.statistics.totalDependencies >= 3

(***************************************************************************)
(* C30: a call on a tracked path                                           *)
(***************************************************************************)

\* trackDependencies is about to start on a path of the tracked set.
CalledOnTrackedPath ==
    /\ pc = "track" /\ stack # << >>
    /\ Top(stack).phase = "call"
    /\ Top(stack).path \in trackedFiles

\* C30: a call of trackDependencies on a path of the tracked set returns
\* at once and leaves the tracked set and the adjacency map, hence graph
\* and statistics, as they were; nothing is raised.
C30_TrackedPathIsNoOp ==
    [][ CalledOnTrackedPath =>
            /\ trackedFiles' = trackedFiles
            /\ dependencyGraph' = dependencyGraph
            /\ stack' = Pop(stack)
            /\ pc' = pc /\ thrown' = thrown ]_vars

\* b.js, reached from a.js, has called trackDependencies on a.js, which was
\* being expanded and so was tracked; the call is over and b.js goes on
\* with its next reference, a.js still having no other key below it.
C30_ReturnedFromTrackedPath ==
    /\ pc = "track" /\ Len(stack) = 2
    /\ stack[1].path = FileA /\ stack[1].phase = "imports"
    /\ stack[2].path = FileB /\ stack[2].phase = "imports" /\ stack[2].i = 2
    /\ stack[2].imports[1] = RefA
    /\ dependencyGraph[FileB] = << FileA >>
    /\ trackedFiles = { FileA, FileB }

====
